---- MODULE Spec2Model ----
(***************************************************************************)
(* ora2csv: the incremental export engine.                                 *)
(*                                                                         *)
(* One process at a time: runExport loads the watermark store              *)
(* (state.Load), Exporter.Run captures tillDate once and walks the active  *)
(* entities in store order; processEntity streams one cursor through a     *)
(* CSV writer (local file, or local staging file plus S3 upload on Close); *)
(* on success File.UpdateEntityTimestamp sets lastRunTime in memory and    *)
(* File.save persists the whole list (temp file, rename, S3 push).  The    *)
(* process then exits and a later start-up loads the store again.          *)
(*                                                                         *)
(* Time is counted in clock ticks, TicksPerSec ticks to the second; a      *)
(* timestamp string "YYYY-MM-DDTHH:MM:SS" is modelled by the number of     *)
(* whole seconds it denotes.  Entity names are modelled by the integers    *)
(* 1..NumEntities, ordered as the strings are.                             *)
(***************************************************************************)
EXTENDS Integers, Sequences, FiniteSets, TLC

\* ------------------------------------------------------------- bounds
NumEntities == 2      \* entities in the state file
MaxRows     == 1      \* rows a cursor yields at most
MaxElapsed  == 1      \* clock ticks that pass, at most, after the first start-up
MaxCursorLen == 2     \* rows a cursor yields when executeQueryToCSV is called on its own
MaxFieldLen == 3      \* characters of a CSV field
MaxNameLen  == 3      \* characters of an entity name when the naming functions are called
NumWriters  == 2      \* goroutines that call UpdateEntityTimestamp on one store
MaxCalls    == 2      \* calls of UpdateEntityTimestamp by a caller of the store
MaxStarts   == 3      \* process start-ups (cron invocations) in SpecRuns

\* ---------------------------------------------------------- constants
TicksPerSec     == 2          \* Format drops the sub-second part of a time.Time
DefaultDaysBack == 30
SecondsPerDay   == 86400
Clock0Sec       == 3000000    \* wall clock, in seconds, at the first start-up
PastSec         == 2999000    \* a watermark written before the first start-up
OlderSec        == 2998000    \* a watermark older than that, left in the S3 mirror

\* lastRunTime strings that are not timestamps
EmptyStr == -1        \* ""
NullStr  == -2        \* "null"
BadStr   == -3        \* a string time.Parse rejects

Names == 1..NumEntities

\* ------------------------------------------------------ pure functions
\* a Format whose layout keeps the fraction of the second
FormatFraction(t) == t

Format(t) == t \div TicksPerSec          \* time.Time -> "2006-01-02T15:04:05"
ParseInLocation(s) == s * TicksPerSec    \* "2006-01-02T15:04:05" -> time.Time
ZeroTime == 0                            \* time.Time{}

\* EntityState.GetLastRunTime: <<time, ok>>
GetLastRunTime(e) ==
  IF e.LastRunTime = EmptyStr \/ e.LastRunTime = NullStr THEN <<ZeroTime, TRUE>>
  ELSE IF e.LastRunTime = BadStr THEN <<ZeroTime, FALSE>>
  ELSE <<ParseInLocation(e.LastRunTime), TRUE>>

AddDate(t, days) == t + days * SecondsPerDay * TicksPerSec

\* Exporter.getStartDate, given the reading of time.Now(): <<time, ok>>
getStartDate(e, now) ==
  LET lrt == GetLastRunTime(e) IN
  IF ~lrt[2] THEN <<ZeroTime, FALSE>>
  ELSE IF lrt[1] = ZeroTime THEN <<AddDate(now, -DefaultDaysBack), TRUE>>
  ELSE <<lrt[1], TRUE>>

\* whether getStartDate reads the clock
ReadsClock(e) == GetLastRunTime(e)[2] /\ GetLastRunTime(e)[1] = ZeroTime

\* Exporter.getOutputPath: the local path is decided by the entity name and
\* the start date string
getOutputPath(name, startDateStr) == <<name, startDateStr>>

\* the S3 key built in executeQueryToCSV from the output path
S3Key(outputPath) == <<outputPath[1], outputPath[2]>>

\* a GetActiveEntities that forgets to look at Active
GetEveryEntity(ents) == ents

\* File.GetActiveEntities: a copy of the active entities, in store order
RECURSIVE GetActiveEntities(_)
GetActiveEntities(ents) ==
  IF ents = <<>> THEN <<>>
  ELSE (IF Head(ents).Active THEN <<Head(ents)>> ELSE <<>>)
       \o GetActiveEntities(Tail(ents))

\* index of the first entity named name, 0 if none (the loop of
\* UpdateEntityTimestamp and FindEntity)
RECURSIVE FindFrom(_, _, _)
FindFrom(ents, name, i) ==
  IF i > Len(ents) THEN 0
  ELSE IF ents[i].Entity = name THEN i
  ELSE FindFrom(ents, name, i + 1)

FindEntity(ents, name) == FindFrom(ents, name, 1)

\* an update that stamps every entity of the store
SetTimestampAll(ents, name, ts) ==
  [i \in DOMAIN ents |-> [ents[i] EXCEPT !.LastRunTime = ts]]

\* the in-memory part of File.UpdateEntityTimestamp
SetTimestamp(ents, name, ts) ==
  LET i == FindEntity(ents, name) IN
  IF i = 0 THEN ents ELSE [ents EXCEPT ![i].LastRunTime = ts]

\* sort.Slice by Entity, as File.save does on a copy
RECURSIVE InsertSorted(_, _)
InsertSorted(e, s) ==
  IF s = <<>> THEN <<e>>
  ELSE IF e.Entity < Head(s).Entity THEN <<e>> \o s
  ELSE <<Head(s)>> \o InsertSorted(e, Tail(s))

RECURSIVE SortByEntity(_)
SortByEntity(ents) ==
  IF ents = <<>> THEN <<>>
  ELSE InsertSorted(Head(ents), SortByEntity(Tail(ents)))

\* file contents: no file, a complete JSON document, or a torn write
\* the LastRunTime of the first entity called name (EmptyStr when there is none)
LastRunTimeIn(ents, name) ==
  IF FindEntity(ents, name) = 0 THEN EmptyStr
  ELSE ents[FindEntity(ents, name)].LastRunTime

NoFile   == [kind |-> "absent", ents |-> <<>>]
TornFile == [kind |-> "torn", ents |-> <<>>]
Json(ents) == [kind |-> "json", ents |-> ents]

\* a save that marshals the entities in the order the store has them
MarshalUnsorted(ents) == Json(ents)

\* json.MarshalIndent of the sorted copy (File.save)
MarshalSorted(ents) == Json(SortByEntity(ents))

\* the stores a start-up may find in a hand-written state file: every entity
\* once, the names descending (save has not sorted them yet); active entities
\* with a watermark in the past and, at any one place of the list, an active
\* entity with any kind of lastRunTime or an inactive one
PlainEntity == [LastRunTime |-> PastSec, Active |-> TRUE]

EntityKinds ==
  [LastRunTime : {EmptyStr, NullStr, BadStr, PastSec}, Active : {TRUE}]
    \cup [LastRunTime : {PastSec}, Active : {FALSE}]

Descending == [i \in 1..NumEntities |-> NumEntities + 1 - i]

MakeStore(order, kinds) ==
  [i \in 1..NumEntities |->
     [Entity |-> order[i], LastRunTime |-> kinds[i].LastRunTime,
      Active |-> kinds[i].Active]]

InitialStores ==
  {MakeStore(Descending, kinds) :
     kinds \in {k \in [1..NumEntities -> EntityKinds] :
                 \E i \in 1..NumEntities :
                   \A j \in (1..NumEntities) \ {i} : k[j] = PlainEntity}}

\* a state object left in S3 by an earlier run (save wrote it, so it is
\* sorted): older watermarks than the local file has
MirrorStore ==
  [i \in 1..NumEntities |->
     [Entity |-> i, LastRunTime |-> OlderSec, Active |-> TRUE]]

\* the store of the runs of SpecRuns: all active, names descending, the odd
\* names with a watermark and the even ones without
RunsStore ==
  [i \in 1..NumEntities |->
     [Entity |-> Descending[i],
      LastRunTime |-> IF Descending[i] % 2 = 1 THEN PastSec ELSE EmptyStr,
      Active |-> TRUE]]


\* -------------------------------------------------------------- state
VARIABLES
  pc,          \* where the process is
  faults,      \* the faults the environment may produce in this behaviour
  sourceRows,  \* the numbers of rows a query may yield in this behaviour
  startsLeft,  \* start-ups still to come
  clock,       \* the last reading of time.Now(), in ticks
  cancelled,   \* the run's context has been cancelled
  s3Enabled,   \* cfg.S3.Bucket != "": S3 writer and S3 state mirror
  stateFile,   \* content of the file at the state path
  tmpFile,     \* content of the sibling path + ".tmp"
  s3State,     \* content of the state object in S3
  localFiles,  \* export directory: output path -> content
  s3Objects,   \* S3 bucket: key -> content
  entities,    \* File.entities
  tillDateStr, \* Run's tillDateStr
  active,      \* the slice Run ranges over
  idx,         \* position of the range loop in active
  result,      \* Run's *ExportResult
  runErr,      \* the error Run returned ("" is nil)
  cur,         \* locals of processEntity / executeQueryToCSV
  saveData,    \* save's marshalled data
  queries,     \* calls of QueryContext in this run: entity and parameters
  updCalls,    \* calls of UpdateEntityTimestamp in this run: entity and timestamp
  runStart,    \* the store, the state file and tillDateStr as they were when
               \* Run reached its loop
  fetch,       \* how the S3 fetch of this process's Load ended: "none" (not
               \* tried), "ok", "failed" (Exists or DownloadBytes returned an
               \* error) or "absent" (no such object)
  committed,   \* entity -> the timestamps save has put into the state file for
               \* it, in the order of the renames, over all start-ups
  prevRun,     \* what the Run of the previous start-up returned, and the store
               \* it had at its start and at its end
  call         \* a function called on its own: its name, arguments and result

vars == <<pc, faults, sourceRows, startsLeft, clock, cancelled, s3Enabled,
          stateFile, tmpFile, s3State,
          localFiles, s3Objects, entities, tillDateStr, active, idx, result,
          runErr, cur, saveData, queries, updCalls, runStart, fetch, committed,
          prevRun, call>>

envVars  == <<stateFile, tmpFile, s3State, localFiles, s3Objects>>
runVars  == <<tillDateStr, active, idx, result, runErr>>
logVars  == <<queries, updCalls, runStart>>

\* the first start-up happens in the last tick of second Clock0Sec
Clock0 == Clock0Sec * TicksPerSec + (TicksPerSec - 1)
MaxClock == Clock0 + MaxElapsed

NoCur == [startDateStr |-> 0, outputFile |-> <<>>, rowsLeft |-> 0,
          rowCount |-> 0, sticky |-> FALSE]

NoResult == [Results |-> <<>>, TotalEntities |-> 0, ProcessedCount |-> 0,
             SuccessCount |-> 0, FailedCount |-> 0, SkippedCount |-> 0]

NoRunStart == [mem |-> <<>>, file |-> NoFile, till |-> 0, done |-> <<>>]

EmptyDir == [p \in {} |-> 0]

\* what can go wrong: the S3 fetch of Load, the process killed in Load's
\* os.WriteFile or in save, loadSQLFile, os.MkdirAll, QueryContext, rows.Columns,
\* os.Create, WriteHeaders, rows.Scan, WriteScannedRow, rows.Err, Flush,
\* UploadStream, save's os.WriteFile, os.Rename and UploadBytes, and the
\* cancellation of the context
AllFaults ==
  {"fetchErr", "kill", "sqlErr", "mkdirErr", "queryErr", "columnsErr", "createErr",
   "headerErr", "scanErr", "writeErr", "iterErr", "flushErr", "uploadErr",
   "tmpErr", "renameErr", "pushErr", "cancel"}

\* the faults of SpecRuns: a failing query, a failed push of the state to S3,
\* a failed fetch of it
RunsFaults == {"fetchErr", "queryErr", "pushErr"}

Outcomes(kinds) == {"ok"} \cup (kinds \cap faults)
OkOr(fault) == {TRUE} \cup {FALSE : f \in {fault} \cap faults}

NoCall == [fn |-> "none"]

NoPrevRun == [err |-> "", results |-> <<>>, before |-> <<>>, mem |-> <<>>, till |-> 0,
              files |-> EmptyDir]

\* cfg.DryRun: the export command was given --dry-run
DryRun == call.fn = "dryRun"

InitWithCall(nStarts, stores, mirrors, fs, rows, calls) ==
  /\ pc = "boot"
  /\ faults = fs
  /\ sourceRows = rows
  /\ startsLeft = nStarts
  /\ clock = Clock0
  /\ cancelled = FALSE
  /\ s3Enabled \in BOOLEAN
  /\ stateFile \in {NoFile} \cup {Json(s) : s \in stores}
  /\ tmpFile = NoFile
  /\ s3State \in (IF s3Enabled THEN mirrors ELSE {NoFile})
  /\ localFiles = EmptyDir
  /\ s3Objects = EmptyDir
  /\ entities = <<>>
  /\ tillDateStr = 0
  /\ active = <<>>
  /\ idx = 0
  /\ result = NoResult
  /\ runErr = ""
  /\ cur = NoCur
  /\ saveData = NoFile
  /\ queries = <<>>
  /\ updCalls = <<>>
  /\ runStart = NoRunStart
  /\ fetch = "none"
  /\ committed = [n \in Names |-> <<>>]
  /\ prevRun = NoPrevRun
  /\ call \in calls

InitWith(nStarts, stores, mirrors, fs, rows) ==
  InitWithCall(nStarts, stores, mirrors, fs, rows, {NoCall})

\* one start-up: over every store, with no state object in S3 yet, or over
\* one store with the state object an earlier run has left in S3
Init ==
  \/ InitWith(1, InitialStores, {NoFile}, AllFaults, 0..MaxRows)
  \/ /\ InitWith(1, {RunsStore}, {Json(MirrorStore)}, AllFaults, 0..MaxRows)
     /\ s3Enabled

\* MaxStarts start-ups, one after the other, over one store whose source has
\* no changed rows
InitRuns == InitWith(MaxStarts, {RunsStore}, {NoFile}, RunsFaults, {0})

\* a fresh process: nothing of the previous one's memory is left
FreshProcess ==
  /\ cancelled' = FALSE
  /\ entities' = <<>>
  /\ tillDateStr' = 0
  /\ active' = <<>>
  /\ idx' = 0
  /\ result' = NoResult
  /\ runErr' = ""
  /\ cur' = NoCur
  /\ saveData' = NoFile
  /\ queries' = <<>>
  /\ updCalls' = <<>>
  /\ runStart' = NoRunStart
  /\ fetch' = "none"

\* ------------------------------------------------------- state.Load
CanStart == pc = "boot" /\ startsLeft > 0

\* the S3 copy exists and is downloaded: it is written over the local file
\* (os.WriteFile, error ignored) and parsed
LoadRemote ==
  /\ CanStart
  /\ s3Enabled /\ s3State.kind = "json"
  /\ startsLeft' = startsLeft - 1
  /\ UNCHANGED <<faults, sourceRows, committed, prevRun, call>>
  /\ stateFile' = s3State
  /\ entities' = s3State.ents
  /\ fetch' = "ok"
  /\ pc' = "loaded"
  /\ UNCHANGED <<clock, cancelled, s3Enabled, tmpFile, s3State, localFiles,
                 s3Objects, runVars, cur, saveData, logVars>>

\* the process is killed while os.WriteFile(path, data) of Load is under way
LoadRemoteInterrupted ==
  /\ CanStart
  /\ "kill" \in faults
  /\ s3Enabled /\ s3State.kind = "json"
  /\ startsLeft' = startsLeft - 1
  /\ UNCHANGED <<faults, sourceRows, committed, prevRun, call>>
  /\ stateFile' = TornFile
  /\ fetch' = "none"
  /\ pc' = "boot"
  /\ UNCHANGED <<clock, cancelled, s3Enabled, tmpFile, s3State, localFiles,
                 s3Objects, entities, runVars, cur, saveData, logVars>>

\* S3 is off, or Exists/DownloadBytes failed, or the object is absent:
\* the local file is read and parsed
FetchFails == ~s3Enabled \/ s3State.kind # "json" \/ "fetchErr" \in faults

\* how the fetch ended when Load goes on to the local file
FetchOutcome ==
  IF ~s3Enabled THEN "none"
  ELSE IF s3State.kind # "json" THEN "absent"
  ELSE "failed"

\* a Load that gives up the local file when the fetch did not succeed
LoadLocalAsEmpty ==
  /\ CanStart
  /\ FetchFails
  /\ fetch' = FetchOutcome
  /\ stateFile.kind = "json"
  /\ startsLeft' = startsLeft - 1
  /\ UNCHANGED <<faults, sourceRows, committed, prevRun, call>>
  /\ entities' = <<>>
  /\ pc' = "loaded"
  /\ UNCHANGED <<clock, cancelled, s3Enabled, envVars, runVars, cur, saveData,
                 logVars>>

LoadLocal ==
  /\ CanStart
  /\ FetchFails
  /\ fetch' = FetchOutcome
  /\ stateFile.kind = "json"
  /\ startsLeft' = startsLeft - 1
  /\ UNCHANGED <<faults, sourceRows, committed, prevRun, call>>
  /\ entities' = stateFile.ents
  /\ pc' = "loaded"
  /\ UNCHANGED <<clock, cancelled, s3Enabled, envVars, runVars, cur, saveData,
                 logVars>>

\* a Load for which a missing local file is an error with S3 configured too
LoadEmptyAsError ==
  /\ CanStart
  /\ FetchFails
  /\ fetch' = FetchOutcome
  /\ s3Enabled /\ stateFile.kind = "absent"
  /\ startsLeft' = startsLeft - 1
  /\ UNCHANGED <<faults, sourceRows, committed, prevRun, call>>
  /\ entities' = <<>>
  /\ pc' = "fatal"
  /\ UNCHANGED <<clock, cancelled, s3Enabled, envVars, runVars, cur, saveData,
                 logVars>>

\* no S3 copy was fetched and there is no local file, with S3 configured:
\* an empty store
LoadEmpty ==
  /\ CanStart
  /\ FetchFails
  /\ fetch' = FetchOutcome
  /\ s3Enabled /\ stateFile.kind = "absent"
  /\ startsLeft' = startsLeft - 1
  /\ UNCHANGED <<faults, sourceRows, committed, prevRun, call>>
  /\ entities' = <<>>
  /\ pc' = "loaded"
  /\ UNCHANGED <<clock, cancelled, s3Enabled, envVars, runVars, cur, saveData,
                 logVars>>

\* Load returns an error: no local file without S3, or a file json.Unmarshal
\* rejects; runExport returns the error
LoadFail ==
  /\ CanStart
  /\ FetchFails
  /\ fetch' = FetchOutcome
  /\ \/ ~s3Enabled /\ stateFile.kind = "absent"
     \/ stateFile.kind = "torn"
  /\ startsLeft' = startsLeft - 1
  /\ UNCHANGED <<faults, sourceRows, committed, prevRun, call>>
  /\ pc' = "fatal"
  /\ UNCHANGED <<clock, cancelled, s3Enabled, envVars, entities, runVars, cur,
                 saveData, logVars>>

Load == LoadRemote \/ LoadRemoteInterrupted \/ LoadLocal \/ LoadEmpty \/ LoadFail

\* ------------------------------------------------------ Exporter.Run
\* a Run that takes for tillDate the default start of a window
CaptureDefaultStart(now) == Format(AddDate(now, -DefaultDaysBack))

\* tillDate := time.Now().UTC(); tillDateStr := tillDate.Format(pattern)
CaptureTillDate(now) == Format(now)

\* the range expression GetActiveEntities() is evaluated once, after the
\* capture of tillDate
RunStart ==
  /\ pc = "loaded"
  /\ ~DryRun
  /\ \E now \in clock..MaxClock :
       /\ clock' = now
       /\ tillDateStr' = CaptureTillDate(now)
       /\ runStart' = [mem |-> entities, file |-> stateFile,
                       till |-> CaptureTillDate(now), done |-> committed]
  /\ active' = GetActiveEntities(entities)
  /\ idx' = 1
  /\ result' = NoResult
  /\ runErr' = ""
  /\ pc' = "loop"
  /\ UNCHANGED <<faults, sourceRows, committed, startsLeft, cancelled,
                 s3Enabled, envVars, entities, cur, saveData,
                 queries, updCalls>>
  /\ UNCHANGED <<fetch, prevRun, call>>

\* the loop is over: Run returns (result, nil)
RunReturn ==
  /\ pc = "loop"
  /\ idx > Len(active)
  /\ result' = [result EXCEPT !.TotalEntities = Len(entities)]
  /\ runErr' = ""
  /\ pc' = "returned"
  /\ UNCHANGED <<faults, sourceRows, committed, startsLeft, clock, cancelled,
                 s3Enabled, envVars, entities,
                 tillDateStr, active, idx, cur, saveData, logVars>>
  /\ UNCHANGED <<fetch, prevRun, call>>

\* a Run that commits the watermark of an entity whose processing failed
RecordFailureCommits(err) ==
  /\ result' = [result EXCEPT
       !.Results = Append(@, [Entity |-> active[idx].Entity, Success |-> FALSE,
                              RowCount |-> 0, FilePath |-> <<>>, Error |-> err]),
       !.ProcessedCount = @ + 1,
       !.FailedCount = @ + 1]
  /\ runErr' = ""
  /\ pc' = "update"
  /\ UNCHANGED idx

\* a Run that records the failure and goes on with the next entity
RecordFailureContinues(err) ==
  /\ result' = [result EXCEPT
       !.Results = Append(@, [Entity |-> active[idx].Entity, Success |-> FALSE,
                              RowCount |-> 0, FilePath |-> <<>>, Error |-> err]),
       !.ProcessedCount = @ + 1,
       !.FailedCount = @ + 1]
  /\ runErr' = ""
  /\ pc' = "loop"
  /\ idx' = idx + 1

\* a Run that returns the failed EntityResult without counting it as failed
RecordFailureUncounted(err) ==
  /\ result' = [result EXCEPT
       !.Results = Append(@, [Entity |-> active[idx].Entity, Success |-> FALSE,
                              RowCount |-> 0, FilePath |-> <<>>, Error |-> err]),
       !.ProcessedCount = @ + 1,
       !.TotalEntities = Len(entities)]
  /\ runErr' = "entity failed"
  /\ pc' = "returned"
  /\ UNCHANGED idx

\* Run appends a failed EntityResult and returns it with an error
RecordFailure(err) ==
  /\ result' = [result EXCEPT
       !.Results = Append(@, [Entity |-> active[idx].Entity, Success |-> FALSE,
                              RowCount |-> 0, FilePath |-> <<>>, Error |-> err]),
       !.ProcessedCount = @ + 1,
       !.FailedCount = @ + 1,
       !.TotalEntities = Len(entities)]
  /\ runErr' = "entity failed"
  /\ pc' = "returned"
  /\ UNCHANGED idx

\* a Run that goes on to the next entity and leaves the commit undone
RecordSuccessDeferred(rowCount, path) ==
  /\ result' = [result EXCEPT
       !.Results = Append(@, [Entity |-> active[idx].Entity, Success |-> TRUE,
                              RowCount |-> rowCount,
                              FilePath |-> IF rowCount = 0 THEN <<>> ELSE path,
                              Error |-> ""]),
       !.ProcessedCount = @ + 1,
       !.SuccessCount = @ + 1]
  /\ runErr' = ""
  /\ pc' = "loop"
  /\ idx' = idx + 1

\* Run appends a successful EntityResult and goes on to commit the watermark
RecordSuccess(rowCount, path) ==
  /\ result' = [result EXCEPT
       !.Results = Append(@, [Entity |-> active[idx].Entity, Success |-> TRUE,
                              RowCount |-> rowCount,
                              FilePath |-> IF rowCount = 0 THEN <<>> ELSE path,
                              Error |-> ""]),
       !.ProcessedCount = @ + 1,
       !.SuccessCount = @ + 1]
  /\ runErr' = ""
  /\ pc' = "update"
  /\ UNCHANGED idx


\* --------------------------------------------------- the CSV writers
NewFile == [hdr |-> FALSE, rows |-> 0]

RemovePath(dir, path) == [p \in (DOMAIN dir) \ {path} |-> dir[p]]

\* an executeQueryToCSV that keeps the file of a query without rows
KeepIfEmpty(files, path, rowCount) == files

\* if rowCount == 0 { writer.Remove() }: the file is closed and deleted
RemoveIfEmpty(files, path, rowCount) ==
  IF rowCount = 0 THEN RemovePath(files, path) ELSE files

\* a Close that deletes the staged file whether or not the upload succeeded
CloseWriterDropsStaging(files, objs, path, sticky, removed, uploadOk) ==
  IF ~s3Enabled \/ sticky \/ removed THEN <<files, objs>>
  ELSE IF uploadOk THEN <<RemovePath(files, path), (S3Key(path) :> files[path]) @@ objs>>
  ELSE <<RemovePath(files, path), objs>>

\* the deferred w.Close() of executeQueryToCSV: <<localFiles, s3Objects>> after it.
\*  StreamingCSVWriter.Close flushes and closes the file, and leaves it where it is.
\*  S3StreamingCSVWriter.Close returns early when CSVWriter.Close fails (the
\*  csv.Writer holds a write error, or Remove has closed the file already);
\*  otherwise it uploads the staged file and, when the upload succeeded, deletes it.
CloseWriter(files, objs, path, sticky, removed, uploadOk) ==
  IF ~s3Enabled \/ sticky \/ removed THEN <<files, objs>>
  ELSE IF uploadOk THEN <<RemovePath(files, path), (S3Key(path) :> files[path]) @@ objs>>
  ELSE <<files, objs>>

\* whether that Close gets as far as s3.UploadStream, and how the upload may end
UploadOutcomes(sticky, removed) ==
  IF s3Enabled /\ ~sticky /\ ~removed THEN OkOr("uploadErr") ELSE {FALSE}

\* ------------------------------------------------ processEntity
InLoop == pc = "loop" /\ idx <= Len(active)

\* processEntity up to the call of executeQueryToCSV: getStartDate,
\* loadSQLFile, getOutputPath, os.MkdirAll
ProcessEntityBegin ==
  /\ InLoop
  /\ \E now \in (IF ReadsClock(active[idx]) THEN clock..MaxClock ELSE {clock}),
        outcome \in Outcomes({"sqlErr", "mkdirErr"}) :
       LET sd == getStartDate(active[idx], now)
           startDateStr == Format(sd[1])
       IN
       /\ clock' = now
       /\ IF ~sd[2]
            THEN /\ outcome = "ok"
                 /\ RecordFailure("failed to determine start date")
                 /\ cur' = NoCur
          ELSE IF outcome # "ok"
            THEN /\ RecordFailure(outcome)
                 /\ cur' = NoCur
          ELSE /\ cur' = [NoCur EXCEPT
                            !.startDateStr = startDateStr,
                            !.outputFile = getOutputPath(active[idx].Entity, startDateStr)]
               /\ pc' = "query"
               /\ UNCHANGED <<result, runErr, idx>>
  /\ UNCHANGED <<faults, sourceRows, committed, startsLeft, cancelled, s3Enabled,
                 envVars, entities, tillDateStr, active, saveData, logVars>>
  /\ UNCHANGED <<fetch, prevRun, call>>

\* an executeQueryToCSV that reads the clock again for the end of the window
QueryParamsNow(startDateStr) == [startDate |-> startDateStr, tillDate |-> Format(clock)]

\* the two named parameters of the query: startDate and tillDate, the values
\* processEntity got from Run
QueryParams(startDateStr) == [startDate |-> startDateStr, tillDate |-> tillDateStr]

\* executeQueryToCSV: QueryContext with startDate and tillDate, rows.Columns,
\* and the creation of the writer (os.Create truncates what is at the path)
ExecuteQuery ==
  /\ pc = "query"
  /\ queries' = Append(queries, [Entity |-> active[idx].Entity,
                                 params |-> QueryParams(cur.startDateStr)])
  /\ \E outcome \in Outcomes({"queryErr", "columnsErr", "createErr"}), n \in sourceRows :
       /\ cancelled => outcome = "queryErr"
       /\ IF outcome = "ok"
            THEN /\ cur' = [cur EXCEPT !.rowsLeft = n]
                 /\ localFiles' = (cur.outputFile :> NewFile) @@ localFiles
                 /\ pc' = "headers"
                 /\ UNCHANGED <<result, runErr, idx>>
            ELSE /\ \A m \in sourceRows : n <= m
                 /\ RecordFailure(outcome)
                 /\ cur' = NoCur
                 /\ UNCHANGED localFiles
  /\ UNCHANGED <<faults, sourceRows, committed, startsLeft, clock, cancelled,
                 s3Enabled, stateFile, tmpFile, s3State, s3Objects, entities,
                 tillDateStr, active, saveData, updCalls, runStart>>
  /\ UNCHANGED <<fetch, prevRun, call>>

\* writer.WriteHeaders(columns); on an error the function returns and the
\* deferred Close runs with the csv.Writer in error
WriteHeaders ==
  /\ pc = "headers"
  /\ \E ok \in OkOr("headerErr") :
       IF ok
         THEN /\ localFiles' = [localFiles EXCEPT ![cur.outputFile].hdr = TRUE]
              /\ pc' = "rows"
              /\ UNCHANGED <<result, runErr, idx, cur, s3Objects>>
         ELSE LET closed == CloseWriter(localFiles, s3Objects, cur.outputFile,
                                        TRUE, FALSE, FALSE) IN
              /\ localFiles' = closed[1]
              /\ s3Objects' = closed[2]
              /\ RecordFailure("failed to write headers")
              /\ cur' = NoCur
  /\ UNCHANGED <<faults, sourceRows, committed, startsLeft, clock, cancelled,
                 s3Enabled, stateFile, tmpFile, s3State, entities, tillDateStr,
                 active, saveData, logVars>>
  /\ UNCHANGED <<fetch, prevRun, call>>

\* one turn of the loop: rows.Next() is true, rows.Scan, writer.WriteScannedRow
StreamRow ==
  /\ pc = "rows"
  /\ cur.rowsLeft > 0
  /\ ~cancelled
  /\ \E outcome \in Outcomes({"scanErr", "writeErr"}) :
       IF outcome = "ok"
         THEN /\ localFiles' = [localFiles EXCEPT ![cur.outputFile].rows = @ + 1]
              /\ cur' = [cur EXCEPT !.rowsLeft = @ - 1, !.rowCount = @ + 1]
              /\ UNCHANGED <<pc, result, runErr, idx, s3Objects>>
         ELSE \E uploadOk \in UploadOutcomes(outcome = "writeErr", FALSE) :
              LET closed == CloseWriter(localFiles, s3Objects, cur.outputFile,
                                        outcome = "writeErr", FALSE, uploadOk) IN
              /\ localFiles' = closed[1]
              /\ s3Objects' = closed[2]
              /\ RecordFailure(outcome)
              /\ cur' = NoCur
  /\ UNCHANGED <<faults, sourceRows, committed, startsLeft, clock, cancelled,
                 s3Enabled, stateFile, tmpFile, s3State, entities, tillDateStr,
                 active, saveData, logVars>>
  /\ UNCHANGED <<fetch, prevRun, call>>

\* rows.Next() is false: rows.Err(), writer.Flush(), writer.Remove() when no
\* row was written, then the deferred Close
FinishStream ==
  /\ pc = "rows"
  /\ cur.rowsLeft = 0 \/ cancelled
  /\ \E outcome \in Outcomes({"iterErr", "flushErr"}) :
       /\ (cancelled /\ cur.rowsLeft > 0) => outcome = "iterErr"
       /\ IF outcome = "ok"
            THEN LET files == RemoveIfEmpty(localFiles, cur.outputFile, cur.rowCount)
                     removed == cur.outputFile \notin DOMAIN files
                 IN
                 \E uploadOk \in UploadOutcomes(FALSE, removed) :
                 LET closed == CloseWriter(files, s3Objects, cur.outputFile,
                                           FALSE, removed, uploadOk)
                 IN
                 /\ localFiles' = closed[1]
                 /\ s3Objects' = closed[2]
                 /\ RecordSuccess(cur.rowCount, cur.outputFile)
                 /\ cur' = NoCur
            ELSE \E uploadOk \in UploadOutcomes(outcome = "flushErr", FALSE) :
                 LET closed == CloseWriter(localFiles, s3Objects, cur.outputFile,
                                           outcome = "flushErr", FALSE, uploadOk) IN
                 /\ localFiles' = closed[1]
                 /\ s3Objects' = closed[2]
                 /\ RecordFailure(outcome)
                 /\ cur' = NoCur
  /\ UNCHANGED <<faults, sourceRows, committed, startsLeft, clock, cancelled,
                 s3Enabled, stateFile, tmpFile, s3State, entities, tillDateStr,
                 active, saveData, logVars>>
  /\ UNCHANGED <<fetch, prevRun, call>>


\* ------------------------------------- the commit of the watermark
\* Run returns (result, error) after UpdateEntityTimestamp failed
ReturnUpdateError ==
  /\ result' = [result EXCEPT !.TotalEntities = Len(entities)]
  /\ runErr' = "failed to update state"
  /\ pc' = "returned"
  /\ UNCHANGED idx

\* the commit is done: the range loop goes to its next element
NextEntity ==
  /\ idx' = idx + 1
  /\ pc' = "loop"
  /\ UNCHANGED <<result, runErr>>

\* a save that writes the new content straight to the state path
UpdateEntityTimestampInPlace ==
  /\ pc = "update"
  /\ updCalls' = Append(updCalls, <<active[idx].Entity, tillDateStr>>)
  /\ IF FindEntity(entities, active[idx].Entity) = 0
       THEN /\ ReturnUpdateError
            /\ UNCHANGED <<entities, saveData, tmpFile, stateFile, committed>>
       ELSE /\ entities' = SetTimestamp(entities, active[idx].Entity, tillDateStr)
            /\ saveData' = MarshalSorted(entities')
            /\ stateFile' = TornFile
            /\ UNCHANGED tmpFile
            /\ pc' = "tmpwrite"
            /\ UNCHANGED <<result, runErr, idx, committed>>
  /\ UNCHANGED <<faults, sourceRows, startsLeft, clock, cancelled, s3Enabled, s3State, localFiles,
                 s3Objects, tillDateStr, active, cur, queries, runStart>>
  /\ UNCHANGED <<fetch, prevRun, call>>

\* File.UpdateEntityTimestamp(entity.Entity, tillDateStr) up to the start of
\* save's os.WriteFile(tmpPath, data): the first entity of that name gets the
\* timestamp, and the sorted copy is marshalled
UpdateEntityTimestamp ==
  /\ pc = "update"
  /\ updCalls' = Append(updCalls, <<active[idx].Entity, tillDateStr>>)
  /\ IF FindEntity(entities, active[idx].Entity) = 0
       THEN /\ ReturnUpdateError
            /\ UNCHANGED <<entities, saveData, tmpFile, committed>>
       ELSE /\ entities' = SetTimestamp(entities, active[idx].Entity, tillDateStr)
            /\ saveData' = MarshalSorted(entities')
            /\ tmpFile' = TornFile
            /\ pc' = "tmpwrite"
            /\ UNCHANGED <<result, runErr, idx, committed>>
  /\ UNCHANGED <<faults, sourceRows, startsLeft, clock, cancelled, s3Enabled,
                 stateFile, s3State, localFiles,
                 s3Objects, tillDateStr, active, cur, queries, runStart>>
  /\ UNCHANGED <<fetch, prevRun, call>>

\* save: os.WriteFile(tmpPath, data) completes, or fails
SaveWriteTmp ==
  /\ pc = "tmpwrite"
  /\ \E ok \in OkOr("tmpErr") :
       IF ok
         THEN /\ tmpFile' = saveData
              /\ pc' = "rename"
              /\ UNCHANGED <<result, runErr, idx, committed>>
         ELSE /\ ReturnUpdateError
              /\ UNCHANGED <<tmpFile, committed>>
  /\ UNCHANGED <<faults, sourceRows, startsLeft, clock, cancelled, s3Enabled,
                 stateFile, s3State, localFiles, s3Objects, entities,
                 tillDateStr, active, cur, saveData, logVars>>
  /\ UNCHANGED <<fetch, prevRun, call>>

\* save: os.Rename(tmpPath, path); when it fails the temp file is removed.
\* Without S3 save returns nil here.
SaveRename ==
  /\ pc = "rename"
  /\ \E ok \in OkOr("renameErr") :
       IF ok
         THEN /\ stateFile' = tmpFile
              /\ tmpFile' = NoFile
              /\ committed' = [committed EXCEPT ![active[idx].Entity] =
                                 Append(@, LastRunTimeIn(tmpFile.ents, active[idx].Entity))]
              /\ IF s3Enabled
                   THEN pc' = "push" /\ UNCHANGED <<idx, result, runErr>>
                   ELSE NextEntity
         ELSE /\ tmpFile' = NoFile
              /\ ReturnUpdateError
              /\ UNCHANGED <<stateFile, committed>>
  /\ UNCHANGED <<faults, sourceRows, startsLeft, clock, cancelled, s3Enabled, s3State, localFiles,
                 s3Objects, entities, tillDateStr, active, cur, saveData, logVars>>
  /\ UNCHANGED <<fetch, prevRun, call>>

\* save: s3.UploadBytes(ctx, s3Key, data); its error is returned by save
SavePush ==
  /\ pc = "push"
  /\ \E ok \in OkOr("pushErr") :
       IF ok
         THEN /\ s3State' = saveData
              /\ NextEntity
         ELSE /\ ReturnUpdateError
              /\ UNCHANGED s3State
  /\ UNCHANGED committed
  /\ UNCHANGED <<faults, sourceRows, startsLeft, clock, cancelled, s3Enabled,
                 stateFile, tmpFile, localFiles,
                 s3Objects, entities, tillDateStr, active, cur, saveData, logVars>>
  /\ UNCHANGED <<fetch, prevRun, call>>

\* ------------------------------------------------- the environment
\* SIGINT / SIGTERM or the query timeout cancels the run's context
Cancel ==
  /\ "cancel" \in faults
  /\ pc \in {"loop", "query", "headers", "rows"}
  /\ ~cancelled
  /\ cancelled' = TRUE
  /\ UNCHANGED <<pc, faults, sourceRows, committed, startsLeft, clock,
                 s3Enabled, envVars, entities, runVars, cur,
                 saveData, logVars>>
  /\ UNCHANGED <<fetch, prevRun, call>>

\* the process is killed while save is under way
Crash ==
  /\ "kill" \in faults
  /\ pc \in {"tmpwrite", "rename", "push"}
  /\ pc' = "boot"
  /\ FreshProcess
  /\ prevRun' = NoPrevRun
  /\ UNCHANGED call
  /\ UNCHANGED <<faults, sourceRows, committed, startsLeft, clock, s3Enabled, envVars>>

\* runExport ends: the process exits
Exit ==
  /\ pc \in {"returned", "fatal"}
  /\ pc' = "boot"
  /\ FreshProcess
  /\ prevRun' = IF pc = "fatal" THEN NoPrevRun
                ELSE [err |-> runErr, results |-> result.Results,
                      before |-> runStart.mem, mem |-> entities, till |-> tillDateStr,
                      files |-> localFiles]
  /\ UNCHANGED call
  /\ UNCHANGED <<faults, sourceRows, committed, startsLeft, clock, s3Enabled, envVars>>

Next ==
  \/ Load
  \/ RunStart
  \/ RunReturn
  \/ ProcessEntityBegin
  \/ ExecuteQuery
  \/ WriteHeaders
  \/ StreamRow
  \/ FinishStream
  \/ UpdateEntityTimestamp
  \/ SaveWriteTmp
  \/ SaveRename
  \/ SavePush
  \/ Cancel
  \/ Crash
  \/ Exit

Spec == Init /\ [][Next]_vars

\* the actions that can happen under RunsFaults
NextRuns ==
  \/ LoadRemote
  \/ LoadLocal
  \/ LoadEmpty
  \/ LoadFail
  \/ RunStart
  \/ RunReturn
  \/ ProcessEntityBegin
  \/ ExecuteQuery
  \/ WriteHeaders
  \/ FinishStream
  \/ UpdateEntityTimestamp
  \/ SaveWriteTmp
  \/ SaveRename
  \/ SavePush
  \/ Exit

SpecRuns == InitRuns /\ [][NextRuns]_vars

\* two start-ups without S3 over one store: queries yield rows or none, and
\* the temp file of save cannot be written or a row cannot be scanned
RerunFaults == {"tmpErr", "scanErr"}

InitRerun ==
  /\ InitWith(2, {RunsStore}, {NoFile}, RerunFaults, 0..MaxRows)
  /\ ~s3Enabled

NextRerun ==
  \/ LoadLocal
  \/ LoadFail
  \/ RunStart
  \/ RunReturn
  \/ ProcessEntityBegin
  \/ ExecuteQuery
  \/ WriteHeaders
  \/ StreamRow
  \/ FinishStream
  \/ UpdateEntityTimestamp
  \/ SaveWriteTmp
  \/ SaveRename
  \/ Exit

SpecRerun == InitRerun /\ [][NextRerun]_vars

\* ------------------------------------- the store, called directly
\* a caller of the state package (as its tests are): after Load it calls
\* UpdateEntityTimestamp(name, ts) with any name, also one no entity has, and
\* any timestamp, and then calls Load again. The store and the file before
\* the call are kept in runStart, the error the call returned in runErr
StoreFaults == {"fetchErr", "tmpErr", "renameErr", "pushErr"}

UnknownName == NumEntities + 1

\* a Load, and one more Load after the calls
InitStore == InitWith(2, InitialStores, {NoFile}, StoreFaults, {0})

CallUpdate ==
  /\ pc \in {"loaded", "loop"}
  /\ Len(updCalls) < MaxCalls
  /\ \E name \in Names \cup {UnknownName}, ts \in {PastSec, Clock0Sec} :
       /\ active' = <<[Entity |-> name, LastRunTime |-> EmptyStr, Active |-> TRUE]>>
       /\ tillDateStr' = ts
       /\ runStart' = [mem |-> entities, file |-> stateFile, till |-> ts,
                       done |-> committed]
  /\ idx' = 1
  /\ runErr' = ""
  /\ pc' = "update"
  /\ UNCHANGED <<faults, sourceRows, startsLeft, clock, cancelled, s3Enabled,
                 envVars, entities, result, cur, saveData, queries,
                 updCalls, fetch, committed, prevRun, call>>

\* the caller drops its store and is about to call Load afresh
Reopen ==
  /\ pc \in {"loop", "returned"}
  /\ updCalls # <<>>
  /\ startsLeft > 0
  /\ entities' = <<>>
  /\ fetch' = "none"
  /\ pc' = "boot"
  /\ UNCHANGED <<faults, sourceRows, startsLeft, clock, cancelled, s3Enabled,
                 envVars, runVars, cur, saveData, logVars, committed, prevRun, call>>

NextStore ==
  \/ LoadRemote
  \/ LoadLocal
  \/ LoadEmpty
  \/ LoadFail
  \/ CallUpdate
  \/ UpdateEntityTimestamp
  \/ SaveWriteTmp
  \/ SaveRename
  \/ SavePush
  \/ Reopen

SpecStore == InitStore /\ [][NextStore]_vars

\* --------------------------------- functions called on their own
\* what os.Stat(<sqlDir>/<entity>.sql) can answer: the file is there, it does
\* not exist (os.IsNotExist), or another error (the directory cannot be
\* searched, a component of the path is not a directory, ...)
StatOutcomes == {"file", "notExist", "otherErr"}

\* the entities of the store for which os.Stat answers "does not exist",
\* in the order of the store: `missing` of File.ValidateSQLFiles
RECURSIVE MissingSQL(_, _)
MissingSQL(ents, stat) ==
  IF ents = <<>> THEN <<>>
  ELSE (IF Head(ents).Active /\ stat[Head(ents).Entity] = "notExist"
          THEN <<Head(ents).Entity>> ELSE <<>>)
       \o MissingSQL(Tail(ents), stat)

\* File.ValidateSQLFiles(sqlDir): <<error or not, the names in the error>>
ValidateSQLFiles(ents, stat) ==
  LET missing == MissingSQL(ents, stat) IN <<Len(missing) > 0, missing>>

\* stores with every combination of active flags, the names descending
FlagStores ==
  {MakeStore(Descending, [i \in 1..NumEntities |->
                            [LastRunTime |-> PastSec, Active |-> flags[i]]]) :
     flags \in [1..NumEntities -> BOOLEAN]}

ValidateCalls ==
  {[fn |-> "ValidateSQLFiles", ents |-> st, stat |-> o, done |-> FALSE,
    err |-> FALSE, names |-> <<>>] : st \in FlagStores, o \in [Names -> StatOutcomes]}

CallValidateSQLFiles ==
  /\ call.fn = "ValidateSQLFiles" /\ ~call.done
  /\ LET r == ValidateSQLFiles(call.ents, call.stat) IN
     call' = [call EXCEPT !.done = TRUE, !.err = r[1], !.names = r[2]]
  /\ UNCHANGED <<pc, faults, sourceRows, startsLeft, clock, cancelled, s3Enabled,
                 envVars, entities, runVars, cur, saveData, logVars, fetch,
                 committed, prevRun>>

\* the values of a column: NULL or a number, and the empty string
DbNull == -1
DbValues == {DbNull, 1, 2}
DbEmpty == 0

\* the string database/sql converts a value that is not NULL to
ColumnString(v) == IF v = DbEmpty THEN "" ELSE ToString(v)

\* rows.Scan(scanTargets...) into the *string targets of GetScanTargets: each
\* value is converted to its string; a NULL cannot be converted and Scan
\* fails. <<ok, rowValues>>
ScanRow(row) ==
  IF \E i \in DOMAIN row : row[i] = DbNull THEN <<FALSE, <<>>>>
  ELSE <<TRUE, [i \in DOMAIN row |-> ColumnString(row[i])]>>

\* formatValue: nil becomes the empty string, a string stays as it is
NilValue == "<nil>"
formatValue(v) == IF v = NilValue THEN "" ELSE v

\* WriteScannedRow and WriteRow: an empty string is taken for NULL, every
\* value is formatted, and the record is what csv.Writer.Write gets
WriteScannedRow(rowValues) ==
  [i \in DOMAIN rowValues |->
     formatValue(IF rowValues[i] = "" THEN NilValue ELSE rowValues[i])]

\* a row loop that puts each new record in front of the ones before it
RECURSIVE StreamRowsNewestFirst(_, _, _)
StreamRowsNewestFirst(cursor, records, rowCount) ==
  IF cursor = <<>> THEN [ok |-> TRUE, records |-> records, rowCount |-> rowCount]
  ELSE LET scanned == ScanRow(Head(cursor)) IN
       IF ~scanned[1] THEN [ok |-> FALSE, records |-> records, rowCount |-> 0]
       ELSE StreamRowsNewestFirst(Tail(cursor),
                                  <<Head(records)>> \o <<WriteScannedRow(scanned[2])>>
                                    \o Tail(records),
                                  rowCount + 1)

\* the row loop of executeQueryToCSV: for rows.Next() { Scan; WriteScannedRow;
\* rowCount++ }, returning (0, err) when Scan fails
RECURSIVE StreamRows(_, _, _)
StreamRows(cursor, records, rowCount) ==
  IF cursor = <<>> THEN [ok |-> TRUE, records |-> records, rowCount |-> rowCount]
  ELSE LET scanned == ScanRow(Head(cursor)) IN
       IF ~scanned[1] THEN [ok |-> FALSE, records |-> records, rowCount |-> 0]
       ELSE StreamRows(Tail(cursor), Append(records, WriteScannedRow(scanned[2])),
                       rowCount + 1)

\* executeQueryToCSV from WriteHeaders on, all writes succeeding: the records
\* of the destination and the row count it returns
WriteCSV(columns, cursor) == StreamRows(cursor, <<columns>>, 0)

ColumnLists == {<<"id">>, <<"id", "name">>}

CursorsOf(columns) ==
  UNION {[1..n -> [1..Len(columns) -> DbValues]] : n \in 0..MaxCursorLen}

WriteCSVCalls ==
  {[fn |-> "executeQueryToCSV", columns |-> c, cursor |-> rows, done |-> FALSE,
    ok |-> FALSE, records |-> <<>>, rowCount |-> 0] :
     c \in ColumnLists, rows \in UNION {CursorsOf(cc) : cc \in ColumnLists}}

CallWriteCSV ==
  /\ call.fn = "executeQueryToCSV" /\ ~call.done
  /\ \A i \in DOMAIN call.cursor : Len(call.cursor[i]) = Len(call.columns)
  /\ LET r == WriteCSV(call.columns, call.cursor) IN
     call' = [call EXCEPT !.done = TRUE, !.ok = r.ok, !.records = r.records,
                          !.rowCount = r.rowCount]
  /\ UNCHANGED <<pc, faults, sourceRows, startsLeft, clock, cancelled, s3Enabled,
                 envVars, entities, runVars, cur, saveData, logVars, fetch,
                 committed, prevRun>>

\* a query of two columns whose one row may hold NULLs and empty strings
ScanWriteCalls ==
  {[fn |-> "scanAndWrite", dbRow |-> r, done |-> FALSE, ok |-> FALSE, fields |-> <<>>] :
     r \in [1..2 -> DbValues \cup {DbEmpty}]}

CallScanAndWrite ==
  /\ call.fn = "scanAndWrite" /\ ~call.done
  /\ LET r == WriteCSV(<<"id", "name">>, <<call.dbRow>>) IN
     call' = [call EXCEPT !.done = TRUE, !.ok = r.ok,
                          !.fields = IF r.ok THEN r.records[2] ELSE <<>>]
  /\ UNCHANGED <<pc, faults, sourceRows, startsLeft, clock, cancelled, s3Enabled,
                 envVars, entities, runVars, cur, saveData, logVars, fetch,
                 committed, prevRun>>

\* ------------------------------------------ the CSV text and its reading
\* A field is a sequence of characters. csv.Writer with UseCRLF = false, as
\* NewCSVWriter sets it up: a field is quoted when it holds the comma, a
\* quote, CR or LF, or begins with a space; the empty field is not quoted
QUOTE == "\""
COMMA == ","
LF    == "\n"
CR    == "\r"

FieldChars == {"a", COMMA, QUOTE, LF, CR}

RECURSIVE FieldsUpTo(_)
FieldsUpTo(n) ==
  IF n = 0 THEN {<<>>}
  ELSE FieldsUpTo(n - 1)
         \cup {Append(f, c) : f \in {g \in FieldsUpTo(n - 1) : Len(g) = n - 1},
                              c \in FieldChars}

fieldNeedsQuotes(field) ==
  /\ field # <<>>
  /\ \/ \E i \in DOMAIN field : field[i] \in {COMMA, QUOTE, CR, LF}
     \/ field[1] = " "

RECURSIVE EscapeQuotes(_)
EscapeQuotes(field) ==
  IF field = <<>> THEN <<>>
  ELSE (IF Head(field) = QUOTE THEN <<QUOTE, QUOTE>> ELSE <<Head(field)>>)
         \o EscapeQuotes(Tail(field))

WriteField(field) ==
  IF fieldNeedsQuotes(field) THEN <<QUOTE>> \o EscapeQuotes(field) \o <<QUOTE>>
  ELSE field

\* csv.Writer.Write: the fields with commas between them and LF at the end
RECURSIVE WriteRecord(_)
WriteRecord(record) ==
  IF Len(record) = 1 THEN WriteField(record[1]) \o <<LF>>
  ELSE WriteField(Head(record)) \o <<COMMA>> \o WriteRecord(Tail(record))

\* WriteHeaders and WriteRow on strings, one call after the other, and Flush
RECURSIVE WriteRecords(_)
WriteRecords(records) ==
  IF records = <<>> THEN <<>>
  ELSE WriteRecord(Head(records)) \o WriteRecords(Tail(records))

\* the reader of the same package, csv.Reader with its defaults, on the text
\* of the file: readLine turns every CR LF into LF, also inside a quoted field
RECURSIVE NormaliseLines(_)
NormaliseLines(text) ==
  IF text = <<>> THEN <<>>
  ELSE IF Len(text) >= 2 /\ text[1] = CR /\ text[2] = LF
         THEN NormaliseLines(Tail(text))
  ELSE <<Head(text)>> \o NormaliseLines(Tail(text))

\* the fields and records of a text. st is where the reader is: at the start
\* of a record ("start") or of a field ("field"), in a bare field ("bare"),
\* in a quoted one ("quoted"), or after a quote inside a quoted one
\* ("afterq"). csv.Reader skips an empty line (skipEmpty); a reader that
\* takes RFC 4180 by its grammar reads it as a record of one empty field
RECURSIVE ParseFrom(_, _, _, _, _, _, _)
ParseFrom(text, i, st, field, record, records, skipEmpty) ==
  IF i > Len(text)
    THEN IF st = "start" THEN [ok |-> TRUE, records |-> records]
         ELSE IF st = "quoted" THEN [ok |-> FALSE, records |-> records]
         ELSE [ok |-> TRUE, records |-> Append(records, Append(record, field))]
  ELSE LET c == text[i]
           endField == ParseFrom(text, i + 1, "field", <<>>, Append(record, field),
                                 records, skipEmpty)
           endRecord == ParseFrom(text, i + 1, "start", <<>>, <<>>,
                                  Append(records, Append(record, field)), skipEmpty)
           more(to, ch) == ParseFrom(text, i + 1, to, Append(field, ch), record,
                                     records, skipEmpty)
           fail == [ok |-> FALSE, records |-> records]
       IN
       CASE st = "start" ->
              IF c = LF /\ skipEmpty
                THEN ParseFrom(text, i + 1, "start", <<>>, <<>>, records, skipEmpty)
              ELSE ParseFrom(text, i, "field", <<>>, <<>>, records, skipEmpty)
         [] st = "field" ->
              IF c = QUOTE
                THEN ParseFrom(text, i + 1, "quoted", <<>>, record, records, skipEmpty)
              ELSE IF c = COMMA THEN endField
              ELSE IF c = LF THEN endRecord
              ELSE more("bare", c)
         [] st = "bare" ->
              IF c = COMMA THEN endField
              ELSE IF c = LF THEN endRecord
              ELSE IF c = QUOTE THEN fail
              ELSE more("bare", c)
         [] st = "quoted" ->
              IF c = QUOTE
                THEN ParseFrom(text, i + 1, "afterq", field, record, records, skipEmpty)
              ELSE more("quoted", c)
         [] st = "afterq" ->
              IF c = QUOTE THEN more("quoted", QUOTE)
              ELSE IF c = COMMA THEN endField
              ELSE IF c = LF THEN endRecord
              ELSE fail

\* csv.NewReader(file).ReadAll()
ReadAll(text) == ParseFrom(NormaliseLines(text), 1, "start", <<>>, <<>>, <<>>, TRUE)

\* the files written: one record of one field, one record of two fields, or
\* two records of one short field each
CsvFiles ==
  {<<<<f>>>> : f \in FieldsUpTo(MaxFieldLen)}
    \cup {<<<<f, g>>>> : f \in FieldsUpTo(MaxFieldLen), g \in {<<>>, <<"a">>}}
    \cup {<<<<f>>, <<g>>>> : f \in FieldsUpTo(1), g \in FieldsUpTo(1)}

RoundTripCalls ==
  {[fn |-> "roundTrip", csvRecords |-> r, done |-> FALSE, csvText |-> <<>>,
    readOk |-> FALSE, readBack |-> <<>>] :
     r \in CsvFiles}

CallRoundTrip ==
  /\ call.fn = "roundTrip" /\ ~call.done
  /\ LET text == WriteRecords(call.csvRecords) IN
     call' = [call EXCEPT !.done = TRUE, !.csvText = text,
                !.readOk = ReadAll(text).ok, !.readBack = ReadAll(text).records]
  /\ UNCHANGED <<pc, faults, sourceRows, startsLeft, clock, cancelled, s3Enabled,
                 envVars, entities, runVars, cur, saveData, logVars, fetch,
                 committed, prevRun>>

\* CSVWriter.Remove: the file is closed and os.Remove deletes it, whatever
\* has been written to it
Remove(files, path) == RemovePath(files, path)

\* a destination with or without a header and with 0..MaxRows data rows
RemoveCalls ==
  {[fn |-> "Remove", path |-> getOutputPath(n, PastSec),
    files |-> (getOutputPath(n, PastSec) :> [hdr |-> h, rows |-> r]),
    rows |-> r, done |-> FALSE] : n \in Names, h \in BOOLEAN, r \in 0..MaxRows}

CallRemove ==
  /\ call.fn = "Remove" /\ ~call.done
  /\ call' = [call EXCEPT !.done = TRUE, !.files = Remove(call.files, call.path)]
  /\ UNCHANGED <<pc, faults, sourceRows, startsLeft, clock, cancelled, s3Enabled,
                 envVars, entities, runVars, cur, saveData, logVars, fetch,
                 committed, prevRun>>

\* ---- output naming, on strings as sequences of characters
\* (the extension "csv" and a directory name are one character each)
NameChars == {"a", "_", "."}

EntityNameStrings == UNION {[1..n -> NameChars] : n \in 1..MaxNameLen}

\* a window start with a colon in it
StartDateString == <<"d", ":", "t">>

ExportDirString == <<"out">>

\* strings.ReplaceAll(s, old, new) for one-character old and new
ReplaceAll(str, old, new) ==
  [i \in DOMAIN str |-> IF str[i] = old THEN new ELSE str[i]]

\* the index of the last c in str, 0 when there is none
LastIndexOf(str, c) ==
  IF \E i \in DOMAIN str : str[i] = c
    THEN CHOOSE i \in DOMAIN str : str[i] = c /\ \A j \in DOMAIN str : str[j] = c => j <= i
    ELSE 0

\* filepath.Base: what follows the last separator
Base(path) == SubSeq(path, LastIndexOf(path, "/") + 1, Len(path))

\* strings.TrimSuffix(name, filepath.Ext(name)): the name without its last
\* dot and what follows it
TrimExt(name) ==
  IF LastIndexOf(name, ".") = 0 THEN name
  ELSE SubSeq(name, 1, LastIndexOf(name, ".") - 1)

\* strings.Split(str, "__")[0]: what precedes the first "__"
BeforeDoubleUnderscore(str) ==
  LET at == {i \in 1..(Len(str) - 1) : str[i] = "_" /\ str[i + 1] = "_"} IN
  IF at = {} THEN str
  ELSE SubSeq(str, 1, (CHOOSE i \in at : \A j \in at : i <= j) - 1)

\* fmt.Sprintf("%s__%s.csv", name, safeDate)
FileName(name, safeDate) == name \o <<"_", "_">> \o safeDate \o <<".", "csv">>

\* Exporter.getOutputPath on strings
getOutputPathString(entityName, startDate) ==
  ExportDirString \o <<"/">> \o FileName(entityName, ReplaceAll(startDate, ":", "-"))

\* the elements of a path: what stands between its separators
RECURSIVE SplitPath(_, _)
SplitPath(str, elem) ==
  IF str = <<>> THEN <<elem>>
  ELSE IF Head(str) = "/" THEN <<elem>> \o SplitPath(Tail(str), <<>>)
  ELSE SplitPath(Tail(str), Append(elem, Head(str)))

\* filepath.Clean on the elements of a relative path: empty elements and "."
\* are dropped, ".." takes away the element before it
RECURSIVE CleanElems(_, _)
CleanElems(elems, kept) ==
  IF elems = <<>> THEN kept
  ELSE IF Head(elems) \in {<<>>, <<".">>} THEN CleanElems(Tail(elems), kept)
  ELSE IF Head(elems) = <<".", ".">> /\ kept # <<>> /\ kept[Len(kept)] # <<".", ".">>
    THEN CleanElems(Tail(elems), SubSeq(kept, 1, Len(kept) - 1))
  ELSE CleanElems(Tail(elems), Append(kept, Head(elems)))

RECURSIVE JoinElems(_)
JoinElems(elems) ==
  IF elems = <<>> THEN <<".">>
  ELSE IF Len(elems) = 1 THEN elems[1]
  ELSE elems[1] \o <<"/">> \o JoinElems(Tail(elems))

\* S3Config.Key: the file name when the prefix is empty, else
\* filepath.Join(prefix, filename), which cleans the path
Key(prefix, filename) ==
  IF prefix = <<>> THEN filename
  ELSE JoinElems(CleanElems(SplitPath(prefix \o <<"/">> \o filename, <<>>), <<>>))

\* the key executeQueryToCSV computes from the output path and the start date
s3KeyString(prefix, outputPath, startDate) ==
  LET entityName == BeforeDoubleUnderscore(TrimExt(Base(outputPath))) IN
  Key(prefix, entityName \o <<"/">>
                \o FileName(entityName, ReplaceAll(startDate, ":", "-")))

Prefixes == {<<>>, <<"pre", "/">>}

NamingCalls ==
  {[fn |-> "naming", entityName |-> n, start |-> StartDateString, prefix |-> pre,
    done |-> FALSE, outputPath |-> <<>>, key |-> <<>>] :
     n \in EntityNameStrings, pre \in Prefixes}

CallNaming ==
  /\ call.fn = "naming" /\ ~call.done
  /\ LET outputPath == getOutputPathString(call.entityName, call.start) IN
     call' = [call EXCEPT !.done = TRUE, !.outputPath = outputPath,
                          !.key = s3KeyString(call.prefix, outputPath, call.start)]
  /\ UNCHANGED <<pc, faults, sourceRows, startsLeft, clock, cancelled, s3Enabled,
                 envVars, entities, runVars, cur, saveData, logVars, fetch,
                 committed, prevRun>>

\* ---- what the readers of the store hand out
\* GetEntities: a new slice, the entities copied into it
GetEntities(ents) == [shared |-> FALSE, elems |-> ents, index |-> 0]

\* GetActiveEntities: a new slice, the active entities appended by value
GetActiveEntitiesCopy(ents) ==
  [shared |-> FALSE, elems |-> GetActiveEntities(ents), index |-> 0]

\* FindEntity: &f.entities[i], a pointer into the store's own slice (nil,
\* false when no entity has the name)
FindEntityPointer(ents, name) ==
  [shared |-> FindEntity(ents, name) # 0, elems |-> <<>>, index |-> FindEntity(ents, name)]

\* the store after the caller has set LastRunTime of an element of what it
\* was handed: an element of a copy is the caller's own, the target of the
\* pointer is the store's
StoreAfterCallerWrite(ents, handed, ts) ==
  IF handed.shared THEN [ents EXCEPT ![handed.index].LastRunTime = ts] ELSE ents

Readers == {"GetEntities", "GetActiveEntities", "FindEntity"}

ReaderCalls ==
  {[fn |-> "reader", which |-> w, ents |-> st, entity |-> n, ts |-> Clock0Sec,
    done |-> FALSE, after |-> <<>>] :
     w \in Readers, st \in FlagStores, n \in Names \cup {UnknownName}}

CallReader ==
  /\ call.fn = "reader" /\ ~call.done
  /\ LET handed == CASE call.which = "GetEntities" -> GetEntities(call.ents)
                     [] call.which = "GetActiveEntities" -> GetActiveEntitiesCopy(call.ents)
                     [] call.which = "FindEntity" -> FindEntityPointer(call.ents, call.entity)
     IN call' = [call EXCEPT !.done = TRUE,
                             !.after = StoreAfterCallerWrite(call.ents, handed, call.ts)]
  /\ UNCHANGED <<pc, faults, sourceRows, startsLeft, clock, cancelled, s3Enabled,
                 envVars, entities, runVars, cur, saveData, logVars, fetch,
                 committed, prevRun>>

\* ------------------------------------------- the export command, dry or not
\* runExport with cfg.DryRun set or not. With it, runExport validates after
\* Load and returns: nil, or the error of Validate. The state file as it was
\* before the command is kept beside the flag.
ExportCommands ==
  {NoCall} \cup {[fn |-> "dryRun", fileBefore |-> f] :
                   f \in {NoFile} \cup {Json(st) : st \in InitialStores \cup {RunsStore}}}

InitExport ==
  /\ \/ InitWithCall(1, InitialStores, {NoFile}, AllFaults, 0..MaxRows, ExportCommands)
     \/ /\ InitWithCall(1, {RunsStore}, {Json(MirrorStore)}, AllFaults, 0..MaxRows,
                         ExportCommands)
        /\ s3Enabled
  /\ DryRun => call.fileBefore = stateFile

\* if cfg.DryRun { exporter.Validate(cfg, st, false); return }
DryRunValidate ==
  /\ pc = "loaded"
  /\ DryRun
  /\ \E stat \in [Names -> StatOutcomes] :
       pc' = IF ValidateSQLFiles(entities, stat)[1] THEN "fatal" ELSE "returned"
  /\ UNCHANGED <<faults, sourceRows, startsLeft, clock, cancelled, s3Enabled,
                 envVars, entities, runVars, cur, saveData, logVars, fetch,
                 committed, prevRun, call>>

NextExport == Next \/ DryRunValidate

SpecExport == InitExport /\ [][NextExport]_vars

\* --------------------------------------- parseState on any JSON document
\* json.Unmarshal into []EntityState takes the array as it is written: the
\* names are not compared with each other
parseState(data) ==
  IF data.kind = "json" THEN [err |-> FALSE, entities |-> data.ents]
  ELSE [err |-> TRUE, entities |-> <<>>]

\* the state files a user can write: a JSON array of entities with any names,
\* or bytes that are not JSON
StateDocuments ==
  {Json([i \in 1..NumEntities |->
           [Entity |-> names[i], LastRunTime |-> PastSec, Active |-> TRUE]]) :
     names \in [1..NumEntities -> Names]} \cup {TornFile}

\* Load of a document, then the commit of the entity at place `at` of the
\* loaded list (Run hands UpdateEntityTimestamp the entity's name)
ParseCalls ==
  {[fn |-> "parseState", data |-> d, at |-> j, ts |-> Clock0Sec, done |-> FALSE,
    loadErr |-> FALSE, loaded |-> <<>>, updated |-> <<>>] :
     d \in StateDocuments, j \in 1..NumEntities}

CallParseState ==
  /\ call.fn = "parseState" /\ ~call.done
  /\ LET f == parseState(call.data) IN
     call' = [call EXCEPT !.done = TRUE, !.loadErr = f.err, !.loaded = f.entities,
                !.updated = IF f.err THEN <<>>
                            ELSE SetTimestamp(f.entities, f.entities[call.at].Entity, call.ts)]
  /\ UNCHANGED <<pc, faults, sourceRows, startsLeft, clock, cancelled, s3Enabled,
                 envVars, entities, runVars, cur, saveData, logVars, fetch,
                 committed, prevRun>>

\* no export runs, S3 is off and nothing fails
NoExport ==
  /\ pc = "boot" /\ faults = {} /\ sourceRows = {0} /\ startsLeft = 0
  /\ clock = Clock0 /\ cancelled = FALSE /\ s3Enabled = FALSE
  /\ tmpFile = NoFile /\ s3State = NoFile
  /\ localFiles = EmptyDir /\ s3Objects = EmptyDir
  /\ tillDateStr = 0 /\ active = <<>> /\ idx = 0
  /\ result = NoResult /\ runErr = "" /\ cur = NoCur /\ saveData = NoFile
  /\ queries = <<>> /\ updCalls = <<>> /\ runStart = NoRunStart
  /\ fetch = "none" /\ committed = [n \in Names |-> <<>>]
  /\ prevRun = NoPrevRun

\* one function is called once on one input
InitCalls ==
  /\ NoExport
  /\ stateFile = NoFile /\ entities = <<>>
  /\ call \in ValidateCalls \cup WriteCSVCalls \cup RemoveCalls \cup NamingCalls
                \cup ReaderCalls \cup ParseCalls \cup ScanWriteCalls
                \cup RoundTripCalls

NextCalls ==
  \/ CallValidateSQLFiles
  \/ CallWriteCSV
  \/ CallRemove
  \/ CallNaming
  \/ CallReader
  \/ CallParseState
  \/ CallScanAndWrite
  \/ CallRoundTrip

SpecCalls == InitCalls /\ [][NextCalls]_vars

\* ------------------------------ one store used by several goroutines
\* NumWriters goroutines call UpdateEntityTimestamp and one more reads the
\* store with GetEntities or FindEntity, all on the File that Load returned.
\* f.mu is call.writer (the goroutine holding Lock, 0 for none) and
\* call.rlocked (the goroutines holding RLock); call.th is where each
\* goroutine is and what it was handed.
Writers == 1..NumWriters
TheReader == NumWriters + 1

WriterStart(w, n) ==
  [pc |-> "idle", op |-> "UpdateEntityTimestamp", entity |-> n, ts |-> Clock0Sec + w,
   index |-> 0, err |-> FALSE, seen |-> <<>>, onDisk |-> <<>>]

ReaderStart(o, n) ==
  [pc |-> "idle", op |-> o, entity |-> n, ts |-> 0,
   index |-> 0, err |-> FALSE, seen |-> <<>>, onDisk |-> <<>>]

InitLock ==
  /\ NoExport
  /\ entities = RunsStore
  /\ stateFile = Json(RunsStore)
  /\ \E names \in [Writers -> Names \cup {UnknownName}],
        o \in {"GetEntities", "GetActiveEntities", "FindEntity"}, n \in Names :
       call = [fn |-> "concurrent", writer |-> 0, rlocked |-> {},
               th |-> [t \in Writers \cup {TheReader} |->
                         IF t \in Writers THEN WriterStart(t, names[t])
                         ELSE ReaderStart(o, n)]]

At(t, where) == call.fn = "concurrent" /\ call.th[t].pc = where

LockUnchanged ==
  UNCHANGED <<pc, faults, sourceRows, startsLeft, clock, cancelled, s3Enabled,
              s3State, localFiles, s3Objects, runVars, cur, logVars, fetch,
              committed, prevRun>>

\* f.mu.Lock() of UpdateEntityTimestamp: granted when nobody holds the lock
Lock(w) ==
  /\ At(w, "idle") /\ call.th[w].op = "UpdateEntityTimestamp"
  /\ call.writer = 0 /\ call.rlocked = {}
  /\ call' = [call EXCEPT !.writer = w, !.th[w].pc = "locked"]
  /\ UNCHANGED <<entities, stateFile, tmpFile, saveData>>
  /\ LockUnchanged

\* the search loop of UpdateEntityTimestamp: "entity not found" is returned
\* (the deferred Unlock runs), or the element to assign to is found
FindForUpdate(w) ==
  /\ At(w, "locked")
  /\ LET i == FindEntity(entities, call.th[w].entity) IN
     IF i = 0
       THEN call' = [call EXCEPT !.writer = 0, !.th[w].pc = "done", !.th[w].err = TRUE]
       ELSE call' = [call EXCEPT !.th[w].pc = "writing", !.th[w].index = i]
  /\ UNCHANGED <<entities, stateFile, tmpFile, saveData>>
  /\ LockUnchanged

\* f.entities[i].LastRunTime = timestamp; save sorts a copy and marshals it
AssignTimestamp(w) ==
  /\ At(w, "writing")
  /\ entities' = SetTimestamp(entities, call.th[w].entity, call.th[w].ts)
  /\ saveData' = MarshalSorted(entities')
  /\ call' = [call EXCEPT !.th[w].pc = "tmpwrite"]
  /\ UNCHANGED <<stateFile, tmpFile>>
  /\ LockUnchanged

\* save: os.WriteFile(tmpPath, data)
WriteTmp(w) ==
  /\ At(w, "tmpwrite")
  /\ tmpFile' = saveData
  /\ call' = [call EXCEPT !.th[w].pc = "rename"]
  /\ UNCHANGED <<entities, stateFile, saveData>>
  /\ LockUnchanged

\* save: os.Rename(tmpPath, path); nil is returned and the deferred Unlock runs
RenameAndUnlock(w) ==
  /\ At(w, "rename")
  /\ stateFile' = tmpFile
  /\ tmpFile' = NoFile
  /\ call' = [call EXCEPT !.writer = 0, !.th[w].pc = "done"]
  /\ UNCHANGED <<entities, saveData>>
  /\ LockUnchanged

\* f.mu.RLock() of GetEntities, GetActiveEntities and FindEntity: granted
\* when no writer holds the lock
RLock(r) ==
  /\ At(r, "idle") /\ call.th[r].op \in {"GetEntities", "GetActiveEntities", "FindEntity"}
  /\ call.writer = 0
  /\ call' = [call EXCEPT !.rlocked = @ \cup {r}, !.th[r].pc = "rlocked"]
  /\ UNCHANGED <<entities, stateFile, tmpFile, saveData>>
  /\ LockUnchanged

\* GetEntities and GetActiveEntities copy the entities and return the copy;
\* the deferred RUnlock runs. What the file holds at that moment is kept
\* beside what was seen.
CopyAndRUnlock(r) ==
  /\ At(r, "rlocked") /\ call.th[r].op \in {"GetEntities", "GetActiveEntities"}
  /\ call' = [call EXCEPT !.rlocked = @ \ {r}, !.th[r].pc = "done",
                          !.th[r].seen = IF call.th[r].op = "GetEntities"
                                           THEN GetEntities(entities).elems
                                           ELSE GetActiveEntitiesCopy(entities).elems,
                          !.th[r].onDisk = stateFile.ents]
  /\ UNCHANGED <<entities, stateFile, tmpFile, saveData>>
  /\ LockUnchanged

\* FindEntity returns &f.entities[i]; the deferred RUnlock runs
PointerAndRUnlock(r) ==
  /\ At(r, "rlocked") /\ call.th[r].op = "FindEntity"
  /\ call' = [call EXCEPT !.rlocked = @ \ {r}, !.th[r].pc = "hasPointer",
                          !.th[r].index = FindEntityPointer(entities, call.th[r].entity).index]
  /\ UNCHANGED <<entities, stateFile, tmpFile, saveData>>
  /\ LockUnchanged

\* the caller reads LastRunTime through the pointer, with no lock held. While
\* a writer is in its assignment to the same element the read races with it:
\* it gives the old string, the new one, or a string that is neither.
ReadThroughPointer(r) ==
  /\ At(r, "hasPointer")
  /\ LET i == call.th[r].index
         racing == {w \in Writers : call.th[w].pc = "writing" /\ call.th[w].index = i}
         values == {entities[i].LastRunTime}
                    \cup {call.th[w].ts : w \in racing}
                    \cup (IF racing = {} THEN {} ELSE {BadStr})
     IN \E v \in values :
          call' = [call EXCEPT !.th[r].pc = "done",
                     !.th[r].seen = <<[Entity |-> entities[i].Entity, LastRunTime |-> v,
                                       Active |-> entities[i].Active]>>,
                     !.th[r].onDisk = stateFile.ents]
  /\ UNCHANGED <<entities, stateFile, tmpFile, saveData>>
  /\ LockUnchanged

NextLock ==
  \/ \E w \in Writers : Lock(w)
  \/ \E w \in Writers : FindForUpdate(w)
  \/ \E w \in Writers : AssignTimestamp(w)
  \/ \E w \in Writers : WriteTmp(w)
  \/ \E w \in Writers : RenameAndUnlock(w)
  \/ RLock(TheReader)
  \/ CopyAndRUnlock(TheReader)
  \/ PointerAndRUnlock(TheReader)
  \/ ReadThroughPointer(TheReader)

SpecLock == InitLock /\ [][NextLock]_vars

\* ====================================================== properties
\* Run has been entered and the process has not exited
InRun == pc \notin {"boot", "loaded", "fatal"}

\* the results Run has appended for an entity, and its commit calls
ResultsOf(name) == {i \in 1..Len(result.Results) : result.Results[i].Entity = name}
UpdCallsOf(name) == {i \in 1..Len(updCalls) : updCalls[i][1] = name}
QueriesOf(name) == {i \in 1..Len(queries) : queries[i].Entity = name}

\* C1: within one Run an entity's lastRunTime, in memory and in the state
\* file, differs from its value at the start of the run only if processEntity
\* returned Success for it, the new value is written by one single commit
\* call, and a failed or unreached entity keeps its value
C1_ChangedOnlyAfterSuccess ==
  InRun =>
    \A n \in Names :
      /\ Cardinality(UpdCallsOf(n)) <= 1
      /\ UpdCallsOf(n) # {} =>
            \E i \in ResultsOf(n) : result.Results[i].Success
      /\ (\A i \in ResultsOf(n) : ~result.Results[i].Success) =>
            /\ LastRunTimeIn(entities, n) = LastRunTimeIn(runStart.mem, n)
            /\ LastRunTimeIn(stateFile.ents, n) = LastRunTimeIn(runStart.file.ents, n)
      /\ LastRunTimeIn(entities, n) \in {LastRunTimeIn(runStart.mem, n), tillDateStr}
      /\ LastRunTimeIn(stateFile.ents, n) \in
            {LastRunTimeIn(runStart.file.ents, n), tillDateStr}

\* a run that committed its first entity and failed on its second
C1_Witness ==
  /\ pc = "returned"
  /\ Len(result.Results) = 2
  /\ result.Results[1].Success /\ ~result.Results[2].Success
  /\ LastRunTimeIn(stateFile.ents, result.Results[1].Entity) = tillDateStr
  /\ LastRunTimeIn(runStart.file.ents, result.Results[1].Entity) # tillDateStr
  /\ LastRunTimeIn(stateFile.ents, result.Results[2].Entity)
       = LastRunTimeIn(runStart.file.ents, result.Results[2].Entity)
  /\ LastRunTimeIn(entities, result.Results[2].Entity)
       = LastRunTimeIn(runStart.mem, result.Results[2].Entity)

C4_PersistedEqualsTillDate ==
  (pc = "returned" /\ runErr = "") =>
    \A i \in 1..Len(active) :
      LET n == active[i].Entity
          parsed == GetLastRunTime([LastRunTime |-> LastRunTimeIn(stateFile.ents, n)])
      IN
      /\ tillDateStr = runStart.till
      /\ LastRunTimeIn(stateFile.ents, n) = tillDateStr
      /\ LastRunTimeIn(entities, n) = tillDateStr
      /\ s3Enabled => LastRunTimeIn(s3State.ents, n) = tillDateStr
      /\ parsed[2]
      /\ Format(parsed[1]) = tillDateStr

\* a run over two active entities that returned nil and moved both watermarks
C4_Witness ==
  /\ pc = "returned" /\ runErr = ""
  /\ Len(active) >= 2
  /\ \A i \in 1..Len(active) :
       /\ LastRunTimeIn(runStart.file.ents, active[i].Entity) # tillDateStr
       /\ LastRunTimeIn(stateFile.ents, active[i].Entity) = tillDateStr

\* the output files and the S3 objects written for an entity
FilesOf(name) == {p \in DOMAIN localFiles : p[1] = name}
ObjectsOf(name) == {k \in DOMAIN s3Objects : k[1] = name}

\* the errors processEntity can return once the destination has been created
AfterCreateErrors ==
  {"failed to write headers", "scanErr", "writeErr", "iterErr", "flushErr"}

\* C5: when Run has returned, an entity whose processing failed after its
\* destination was created has no output artifact: no local file and no S3
\* object
C5_NoPartialArtifact ==
  pc = "returned" =>
    \A i \in 1..Len(result.Results) :
      (~result.Results[i].Success /\ result.Results[i].Error \in AfterCreateErrors) =>
        /\ FilesOf(result.Results[i].Entity) = {}
        /\ ObjectsOf(result.Results[i].Entity) = {}

EntityNames(ents) == {ents[i].Entity : i \in 1..Len(ents)}

\* a step taken while save is under way leaves at the state path the complete
\* previous content or the complete new content, with every entity of the store
SaveStepIsAtomic ==
  pc \in {"tmpwrite", "rename", "push"} =>
    /\ stateFile.kind = "json"
    /\ saveData.kind = "json"
    /\ stateFile' = stateFile \/ stateFile' = saveData
    /\ Len(saveData.ents) = Len(runStart.mem)
    /\ EntityNames(saveData.ents) = EntityNames(runStart.mem)
    /\ Len(stateFile'.ents) = Len(runStart.mem)
    /\ EntityNames(stateFile'.ents) = EntityNames(runStart.mem)

\* C7: while save is under way (from the start of the temp-file write to the
\* end of the rename and the push), whatever happens next, a kill included,
\* the file at the state path is the complete previous content or the
\* complete new content, and the new content has every entity of the store
C7_AtomicSave == [][SaveStepIsAtomic]_vars

\* the process was killed between the temp-file write and the rename: the
\* complete new content is in the temp file, the previous one at the state path
C7_Witness ==
  /\ pc = "boot"
  /\ startsLeft = 0
  /\ tmpFile.kind = "json"
  /\ stateFile.kind = "json"
  /\ tmpFile # stateFile
  /\ Len(stateFile.ents) = NumEntities

\* C8: when the temp write and the rename of save succeeded and the push of
\* the state to S3 failed (the state file holds the new content, the S3
\* object does not), Run has not returned the error of a failed commit
C8_PushFailureNonFatal ==
  (/\ pc = "returned"
   /\ s3Enabled
   /\ saveData.kind = "json"
   /\ stateFile = saveData
   /\ s3State # saveData) => runErr # "failed to update state"

\* C9: for an entity that is inactive at the start of a run no query is run,
\* no result recorded, no commit called and no artifact written, and its
\* lastRunTime and active flag, in memory and in the state file, stay as they
\* were, also when save rewrites the file for other entities
C9_InactiveUntouched ==
  InRun =>
    \A k \in 1..Len(runStart.mem) :
      LET e == runStart.mem[k] IN
      ~e.Active =>
        /\ QueriesOf(e.Entity) = {}
        /\ ResultsOf(e.Entity) = {}
        /\ UpdCallsOf(e.Entity) = {}
        /\ FilesOf(e.Entity) = {}
        /\ ObjectsOf(e.Entity) = {}
        /\ \A i \in 1..Len(active) : active[i].Entity # e.Entity
        /\ \E j \in 1..Len(entities) : entities[j] = e
        /\ stateFile = runStart.file
             \/ \E j \in 1..Len(stateFile.ents) : stateFile.ents[j] = e

\* a run over an inactive entity and an active one, whose commit rewrote the
\* state file
C9_Witness ==
  /\ pc = "returned"
  /\ \E k \in 1..Len(runStart.mem) : ~runStart.mem[k].Active
  /\ stateFile # runStart.file
  /\ \E i \in 1..Len(result.Results) :
       result.Results[i].Success /\ result.Results[i].RowCount > 0

\* C10: tillDateStr is what Run captured before its loop, every query of the
\* run got it as its tillDate and every commit of the run wrote it, however
\* far the clock has gone on since
C10_OneWindowEnd ==
  InRun =>
    /\ tillDateStr = runStart.till
    /\ \A q \in 1..Len(queries) : queries[q].params.tillDate = runStart.till
    /\ \A u \in 1..Len(updCalls) : updCalls[u][2] = runStart.till
    /\ \A n \in Names :
         LastRunTimeIn(entities, n) # LastRunTimeIn(runStart.mem, n) =>
           LastRunTimeIn(entities, n) = runStart.till

\* two entities were queried and one committed, and the clock has left the
\* second in which tillDate was captured
C10_Witness ==
  /\ Len(queries) = 2
  /\ Len(updCalls) >= 1
  /\ Format(clock) # tillDateStr
  /\ queries[1].params.tillDate = queries[2].params.tillDate

\* the entities that had no lastRunTime ("" or "null") when the run started
NoPriorRun(name) == LastRunTimeIn(runStart.mem, name) \in {EmptyStr, NullStr}

\* C11: for an entity without lastRunTime the start of the window, in the
\* query and in the output name, is the captured end of the run minus
\* DefaultDaysBack days, whenever in the run the entity is processed
C11_DefaultStartFromEnd ==
  InRun =>
    /\ \A q \in 1..Len(queries) :
         NoPriorRun(queries[q].Entity) =>
           queries[q].params.startDate
             = Format(AddDate(ParseInLocation(runStart.till), -DefaultDaysBack))
    /\ \A p \in DOMAIN localFiles :
         NoPriorRun(p[1]) =>
           p[2] = Format(AddDate(ParseInLocation(runStart.till), -DefaultDaysBack))

\* the end of the window an earlier run committed last for an entity
LastCommitted(name) == runStart.done[name][Len(runStart.done[name])]

\* C12: the window of an entity starts where the window its previous
\* commit closed ended: every query of a run has for startDate the
\* timestamp the last earlier run that committed the entity put into the
\* state file
C12_ContiguousWindows ==
  InRun =>
    \A q \in 1..Len(queries) :
      runStart.done[queries[q].Entity] # <<>> =>
        queries[q].params.startDate = LastCommitted(queries[q].Entity)

\* C13: with S3 configured, when the fetch of the state failed or found no
\* object and the local file exists, the store Load returns is the list of
\* the local file: the same entities with the same names, lastRunTime and
\* active values, in the same order
C13_FallbackToLocal ==
  (/\ pc = "loaded"
   /\ s3Enabled
   /\ fetch \in {"failed", "absent"}
   /\ stateFile.kind = "json") => entities = stateFile.ents

\* the fetch returned an error while S3 holds another state than the local
\* file, and the store is the local one
C13_Witness ==
  /\ pc = "loaded"
  /\ s3Enabled
  /\ fetch = "failed"
  /\ s3State.kind = "json"
  /\ stateFile.kind = "json"
  /\ s3State.ents # stateFile.ents
  /\ Len(entities) = NumEntities

\* C14: the decisions of Load: a state fetched from S3 is the store; with S3
\* configured and neither a fetched state nor a local file the store is
\* empty and Load returns no error; without S3 a missing local file is an
\* error and no store is loaded
C14_LoadDecisions ==
  /\ (pc = "loaded" /\ fetch = "ok") =>
       s3Enabled /\ entities = s3State.ents
  /\ (pc = "loaded" /\ fetch \in {"failed", "absent"} /\ stateFile.kind = "absent") =>
       entities = <<>>
  /\ (s3Enabled /\ stateFile.kind = "absent") => pc # "fatal"
  /\ (~s3Enabled /\ stateFile.kind = "absent") =>
       /\ ~InRun /\ pc # "loaded"
       /\ entities = <<>>
       /\ startsLeft = 0 => pc \in {"fatal", "boot"}
  /\ pc = "fatal" => entities = <<>>

\* S3 is configured, the fetch failed and there is no local file: the store
\* is empty and the run goes on
C14_Witness ==
  /\ pc = "loaded"
  /\ s3Enabled
  /\ fetch = "failed"
  /\ stateFile.kind = "absent"
  /\ entities = <<>>

\* the last finished call of UpdateEntityTimestamp: its name, its timestamp,
\* and whether it returned nil
CallDone == updCalls # <<>> /\ pc \in {"boot", "loaded", "fatal", "loop", "returned"}
LastCallName == updCalls[Len(updCalls)][1]
LastCallTs == updCalls[Len(updCalls)][2]
ReturnedNil == CallDone /\ runErr = ""

\* ents is the store before the call with the timestamp of the named entity
\* set to ts and nothing else changed (the order of the entities apart)
UpdatedFrom(ents, before, name, ts) ==
  /\ Len(ents) = Len(before)
  /\ \A i \in DOMAIN before :
       \E j \in DOMAIN ents :
         /\ ents[j].Entity = before[i].Entity
         /\ ents[j].Active = before[i].Active
         /\ ents[j].LastRunTime
              = IF before[i].Entity = name THEN ts ELSE before[i].LastRunTime

\* C15: UpdateEntityTimestamp(name, ts) returns an error when no entity has
\* the name; when it returns nil, the named entity has ts in memory, the
\* state file holds the store with that one timestamp changed, and a fresh
\* Load succeeds and returns ts for the entity and every other entity as it
\* was before the call
C15_UpdateThenLoad ==
  /\ (CallDone /\ FindEntity(runStart.mem, LastCallName) = 0) => runErr # ""
  /\ (ReturnedNil /\ pc = "loop") =>
       /\ LastRunTimeIn(entities, LastCallName) = LastCallTs
       /\ UpdatedFrom(entities, runStart.mem, LastCallName, LastCallTs)
       /\ stateFile.kind = "json"
       /\ UpdatedFrom(stateFile.ents, runStart.mem, LastCallName, LastCallTs)
  /\ ReturnedNil => pc # "fatal"
  /\ (ReturnedNil /\ pc = "loaded") =>
       /\ LastRunTimeIn(entities, LastCallName) = LastCallTs
       /\ UpdatedFrom(entities, runStart.mem, LastCallName, LastCallTs)

\* a nil call that changed a timestamp, followed by a fresh Load that took
\* the store from S3
C15_Witness ==
  /\ ReturnedNil /\ pc = "loaded" /\ fetch = "ok"
  /\ Len(entities) = NumEntities
  /\ LastRunTimeIn(runStart.mem, LastCallName) # LastCallTs
  /\ LastRunTimeIn(entities, LastCallName) = LastCallTs

\* the context is cancelled and the entity at hand is in its query, or in its
\* row loop with rows still to be read
Interrupted ==
  /\ cancelled
  /\ pc = "query" \/ (pc = "rows" /\ cur.rowsLeft > 0)

FailedResultOf(r, name) == r.Entity = name /\ ~r.Success /\ r.Error # ""

CancelledStep ==
  Interrupted =>
    /\ pc' = "returned"
    /\ runErr' # ""
    /\ Len(result'.Results) = Len(result.Results) + 1
    /\ FailedResultOf(result'.Results[Len(result'.Results)], active[idx].Entity)
    /\ result'.FailedCount = result.FailedCount + 1
    /\ result'.SuccessCount = result.SuccessCount
    /\ updCalls' = updCalls
    /\ entities' = entities
    /\ stateFile' = stateFile /\ tmpFile' = tmpFile /\ s3State' = s3State
    /\ committed' = committed

C17_EveryActiveProcessed ==
  pc = "returned" => \A i \in 1..Len(active) : ResultsOf(active[i].Entity) # {}

\* the exit code of the export command once runExport is over: main exits
\* with 1 on any error runExport returns (the error of Load, the error of
\* Run); runExport itself exits with 2 when Run returned no error and
\* FailedCount > 0
ExitCode ==
  IF pc = "fatal" \/ runErr # "" THEN 1
  ELSE IF result.FailedCount > 0 THEN 2
  ELSE 0

Processed == pc = "returned"

\* C18: the command exits with 0 when every entity succeeded, with 1 on an
\* error before any entity ran, with 2 when one or more entities failed
C18_ThreeWayExit ==
  /\ pc = "fatal" => ExitCode = 1
  /\ (Processed /\ result.FailedCount > 0) => ExitCode = 2
  /\ (Processed /\ ExitCode = 1) => result.ProcessedCount = 0
  /\ (Processed /\ ExitCode = 0) =>
       \A i \in 1..Len(result.Results) : result.Results[i].Success

\* C19: when UpdateEntityTimestamp fails for an entity, the run returns with
\* that entity's result marked failed, counted in FailedCount and not in
\* SuccessCount
C19_CommitFailureOnResult ==
  (pc = "returned" /\ runErr = "failed to update state") =>
    LET n == Len(result.Results) IN
    /\ n > 0
    /\ ~result.Results[n].Success
    /\ result.Results[n].Error # ""
    /\ result.FailedCount = 1
    /\ result.SuccessCount = n - 1

\* C20: with S3, Close uploads the staged file under the key and deletes it
\* when the upload succeeded; a failed upload keeps the staged file and makes
\* the entity's processing fail, so an entity reported as a success with rows
\* has its object in S3 and no staged file left
C20_UploadErrorSurfaced ==
  s3Enabled =>
    \A i \in 1..Len(result.Results) :
      (result.Results[i].Success /\ result.Results[i].RowCount > 0) =>
        /\ S3Key(result.Results[i].FilePath) \in DOMAIN s3Objects
        /\ result.Results[i].FilePath \notin DOMAIN localFiles

\* the errors processEntity reports: none of them is the error of the upload
ProcessingErrors ==
  {"failed to determine start date", "sqlErr", "mkdirErr", "queryErr",
   "columnsErr", "createErr"} \cup AfterCreateErrors

\* result i is a success with rows whose upload to S3 did not succeed
UploadFailedFor(i) ==
  /\ s3Enabled
  /\ result.Results[i].Success
  /\ result.Results[i].RowCount > 0
  /\ S3Key(result.Results[i].FilePath) \notin DOMAIN s3Objects

\* C21: a failed upload of an entity's output does not make the entity fail:
\* no failed result carries an upload error, the entity whose upload failed
\* is a success whose staged file is kept with all its rows, and when no
\* other error ends the run every active entity gets its result
C21_UploadFailureNotFatal ==
  /\ \A i \in 1..Len(result.Results) :
       ~result.Results[i].Success => result.Results[i].Error \in ProcessingErrors
  /\ \A i \in 1..Len(result.Results) :
       UploadFailedFor(i) =>
         /\ result.Results[i].FilePath \in DOMAIN localFiles
         /\ localFiles[result.Results[i].FilePath]
              = [hdr |-> TRUE, rows |-> result.Results[i].RowCount]
         /\ (pc = "returned" /\ runErr = "") => Len(result.Results) = Len(active)

\* the upload of the first entity failed, its watermark was committed and
\* the second entity was exported after it
C21_Witness ==
  /\ pc = "returned" /\ runErr = ""
  /\ Len(result.Results) = 2
  /\ UploadFailedFor(1)
  /\ result.Results[2].Success
  /\ UpdCallsOf(result.Results[1].Entity) # {}

\* the commit of the watermark of active[i] is complete: memory, the state
\* file and, with S3, the state object hold the run's tillDateStr for it,
\* and no temp file is left
CommitCompleteFor(i) ==
  /\ LastRunTimeIn(entities, active[i].Entity) = tillDateStr
  /\ stateFile.kind = "json"
  /\ LastRunTimeIn(stateFile.ents, active[i].Entity) = tillDateStr
  /\ s3Enabled =>
       /\ s3State.kind = "json"
       /\ LastRunTimeIn(s3State.ents, active[i].Entity) = tillDateStr
  /\ tmpFile = NoFile

\* C22: commits are sequential: while entity idx is queried or streamed the
\* commit of every entity before it is complete (memory, state file, S3) and
\* was the only call made for it, and while a commit is under way it is the
\* one call made for entity idx, the calls before it being complete
C22_SequentialCommits ==
  /\ pc \in {"query", "headers", "rows"} =>
       /\ Len(updCalls) = idx - 1
       /\ \A i \in 1..(idx - 1) :
            /\ updCalls[i] = <<active[i].Entity, tillDateStr>>
            /\ CommitCompleteFor(i)
  /\ pc \in {"tmpwrite", "rename", "push"} =>
       /\ Len(updCalls) = idx
       /\ updCalls[idx] = <<active[idx].Entity, tillDateStr>>
       /\ Len(queries) = idx
       /\ \A i \in 1..(idx - 1) :
            /\ LastRunTimeIn(stateFile.ents, active[i].Entity) = tillDateStr
            /\ s3Enabled => LastRunTimeIn(s3State.ents, active[i].Entity) = tillDateStr

\* with S3, the second entity is being queried and the watermark of the
\* first, changed by this run, is in memory, in the file and in S3
C22_Witness ==
  /\ pc = "query" /\ idx = 2 /\ s3Enabled
  /\ CommitCompleteFor(1)
  /\ LastRunTimeIn(runStart.mem, active[1].Entity) # tillDateStr

\* Run has returned because an entity failed: the entities that succeeded
\* before it hold the run's tillDateStr in memory and in the state file, the
\* failed one holds what it had when the run started
KeptAfterFailure ==
  (pc = "returned" /\ runErr = "entity failed") =>
    LET n == Len(result.Results) IN
    /\ \A i \in 1..(n - 1) :
         /\ result.Results[i].Success
         /\ LastRunTimeIn(entities, result.Results[i].Entity) = tillDateStr
         /\ LastRunTimeIn(stateFile.ents, result.Results[i].Entity) = tillDateStr
    /\ ~result.Results[n].Success
    /\ LastRunTimeIn(entities, result.Results[n].Entity)
         = LastRunTimeIn(runStart.mem, result.Results[n].Entity)
    /\ stateFile.kind = "json" =>
         LastRunTimeIn(stateFile.ents, result.Results[n].Entity)
           = LastRunTimeIn(runStart.mem, result.Results[n].Entity)

\* the run after one that an entity's failure ended starts with the
\* watermarks that run ended with: its tillDateStr for the entities that
\* succeeded, the old watermark for the one that failed
RetryStartsFromKept ==
  (InRun /\ prevRun.err = "entity failed") =>
    \A i \in 1..Len(prevRun.results) :
      LastRunTimeIn(runStart.mem, prevRun.results[i].Entity)
        = IF prevRun.results[i].Success THEN prevRun.till
          ELSE LastRunTimeIn(prevRun.before, prevRun.results[i].Entity)

\* C23: a failed entity rolls nothing back: the watermarks committed earlier
\* in the run stay at the run's end value in memory and in the state file,
\* and the retry starts those entities from the new watermark and the failed
\* entity from its old one
C23_NoRollback == KeptAfterFailure /\ RetryStartsFromKept

\* names strictly ascending: sorted, and no name twice
SortedByName(ents) ==
  \A i \in 1..(Len(ents) - 1) : ents[i].Entity < ents[i + 1].Entity

\* the same entities with the same active flags, in whatever order
SameEntities(a, b) ==
  /\ Len(a) = Len(b)
  /\ \A i \in DOMAIN b :
       \E j \in DOMAIN a : a[j].Entity = b[i].Entity /\ a[j].Active = b[i].Active

\* what save has written: a document with the names ascending and, while the
\* run is on, with the entities the run started with
CompleteAndSorted(f) ==
  /\ f.kind = "json"
  /\ SortedByName(f.ents)
  /\ InRun => SameEntities(f.ents, runStart.mem)

SaveHasRenamed == \E n \in Names : committed[n] # <<>>

\* C24: whatever save writes (the bytes it marshals, the temp file once it is
\* written, the state file once a rename has replaced it, the state object
\* once a push has replaced it) is the complete entity list, active flags
\* unchanged, sorted ascending by name
C24_CompleteSortedWrites ==
  /\ pc \in {"tmpwrite", "rename", "push"} => CompleteAndSorted(saveData)
  /\ tmpFile.kind = "json" => CompleteAndSorted(tmpFile)
  /\ SaveHasRenamed => CompleteAndSorted(stateFile)
  /\ (s3State.kind = "json" /\ s3State # Json(MirrorStore)) => CompleteAndSorted(s3State)

\* a store loaded with the names descending and an inactive entity in it,
\* written by save with the names ascending
C24_Witness ==
  /\ pc = "loop" /\ SaveHasRenamed
  /\ ~SortedByName(entities)
  /\ \E i \in DOMAIN entities : ~entities[i].Active
  /\ SortedByName(stateFile.ents) /\ SameEntities(stateFile.ents, entities)

Returned(fn) == call.fn = fn /\ call.done

\* the active entities of the call's store that have no template file
NoTemplate ==
  {call.ents[i].Entity : i \in {j \in DOMAIN call.ents :
      call.ents[j].Active /\ call.stat[call.ents[j].Entity] # "file"}}

\* C25: ValidateSQLFiles returns an error exactly when an active entity has
\* no template <entity>.sql, the error names every such entity, and inactive
\* entities never cause an error
C25_ValidateExactly ==
  Returned("ValidateSQLFiles") =>
    /\ call.err <=> NoTemplate # {}
    /\ call.err => {call.names[i] : i \in DOMAIN call.names} = NoTemplate

\* C26: when executeQueryToCSV succeeds with rows, the destination holds the
\* header record with the column names, then one record per row of the
\* cursor in the cursor's order, each column as the string of its value, and
\* the row count returned is the number of rows of the cursor
C26_RowsInCursorOrder ==
  (Returned("executeQueryToCSV") /\ call.ok) =>
    /\ call.rowCount = Len(call.cursor)
    /\ Len(call.records) = Len(call.cursor) + 1
    /\ call.records[1] = call.columns
    /\ \A i \in DOMAIN call.cursor :
         /\ Len(call.records[i + 1]) = Len(call.columns)
         /\ \A j \in DOMAIN call.columns :
              call.records[i + 1][j] = ToString(call.cursor[i][j])

\* two different rows of two columns were written
C26_Witness ==
  /\ Returned("executeQueryToCSV") /\ call.ok
  /\ call.rowCount = 2 /\ Len(call.columns) = 2
  /\ call.cursor[1] # call.cursor[2]
  /\ call.cursor[1][1] # call.cursor[1][2]

\* C27: Remove() deletes a destination without data rows (empty or with the
\* header only) and leaves a destination with at least one data row
C27_RemoveOnlyIfEmpty ==
  Returned("Remove") =>
    /\ call.rows = 0 => call.path \notin DOMAIN call.files
    /\ call.rows > 0 => call.path \in DOMAIN call.files

\* the window start with its colons replaced by dashes
SafeStart == <<"d", "-", "t">>

\* C28: for every entity name and window start the local artifact is
\* <ExportDir>/<entity>__<safe start>.csv and the remote key is
\* <prefix><entity>/<entity>__<safe start>.csv, with the full entity name in
\* both places
C28_OutputNaming ==
  Returned("naming") =>
    /\ call.outputPath = ExportDirString \o <<"/">> \o call.entityName \o <<"_", "_">>
                            \o SafeStart \o <<".", "csv">>
    /\ call.key = call.prefix \o call.entityName \o <<"/">> \o call.entityName
                     \o <<"_", "_">> \o SafeStart \o <<".", "csv">>

\* C30: nothing GetEntities, GetActiveEntities or FindEntity hands out lets
\* the caller change the store: after the caller has modified what it was
\* handed, the store's entities are what they were
C30_StoreOwnsMutation ==
  Returned("reader") => call.after = call.ents

Concurrent == call.fn = "concurrent"

\* the updates that returned nil
SucceededWriters == {w \in Writers : call.th[w].pc = "done" /\ ~call.th[w].err}

\* every update that returned nil is in the state file, unless a later one
\* of the same entity has replaced it
FileHasEveryUpdate ==
  \A w \in SucceededWriters :
    LastRunTimeIn(stateFile.ents, call.th[w].entity)
      \in {call.th[v].ts : v \in {u \in Writers : call.th[u].entity = call.th[w].entity}}

\* with no update under way, memory and the state file hold the same
\* watermarks and no temp file is left
UpdatesAreWhole ==
  call.writer = 0 =>
    /\ tmpFile = NoFile
    /\ stateFile.kind = "json"
    /\ \A n \in Names : LastRunTimeIn(entities, n) = LastRunTimeIn(stateFile.ents, n)

\* what a reader has seen is what the state file held at that moment
ReadersSeeWholeUpdates ==
  \A t \in DOMAIN call.th :
    \A i \in DOMAIN call.th[t].seen :
      call.th[t].seen[i].LastRunTime
        = LastRunTimeIn(call.th[t].onDisk, call.th[t].seen[i].Entity)

\* C29: one lock serialises all access to the store: under any interleaving
\* of concurrent UpdateEntityTimestamp calls and readers, each update is
\* applied and persisted as a whole, the state file contains every
\* successful update, and no reader observes a partially applied update
C29_LockSerialisesAccess ==
  Concurrent => FileHasEveryUpdate /\ UpdatesAreWhole /\ ReadersSeeWholeUpdates

UniqueNames(ents) ==
  \A i, j \in DOMAIN ents : ents[i].Entity = ents[j].Entity => i = j

\* the places of the list whose watermark the update changed
ChangedPlaces(before, after) ==
  {i \in DOMAIN before : after[i].LastRunTime # before[i].LastRunTime}

\* C31: entity names are unique in the store: no store returned by Load and
\* no store reached by UpdateEntityTimestamp has two entities of one name, so
\* the commit of a processed entity changes the watermark of exactly that
\* entity
C31_UniqueNames ==
  (Returned("parseState") /\ ~call.loadErr) =>
    /\ UniqueNames(call.loaded)
    /\ UniqueNames(call.updated)
    /\ ChangedPlaces(call.loaded, call.updated) = {call.at}

\* a step in which the deferred Close has put a staged file into the bucket
UploadStep == s3Objects' # s3Objects

\* C32: writer finalisation honours the caller's cancellation: once the run's
\* context has been cancelled, no upload of an entity's staged output to the
\* remote store is started, so no object appears in the bucket after it
C32_NoUploadAfterCancel == [][cancelled => ~UploadStep]_vars

\* C33: a NULL column value and an empty-string column value are both
\* written as the same empty field, and writing a row that holds either one
\* succeeds without failing the entity
C33_NullAndEmptyAlike ==
  Returned("scanAndWrite") =>
    /\ call.ok
    /\ \A j \in DOMAIN call.dbRow :
         call.dbRow[j] \in {DbNull, DbEmpty} => call.fields[j] = ""

\* C34: CSV round trip: any field value, also one with a comma, a double
\* quote and an embedded line feed, is written so that reading the output
\* back as CSV gives exactly the same field values and the same number of
\* records
C34_CsvRoundTrip ==
  Returned("roundTrip") => call.readOk /\ call.readBack = call.csvRecords

\* what a reader gets that follows the grammar of RFC 4180 to the letter: CR LF
\* inside quotes is kept and an empty line is a record of one empty field
ReadAllByGrammar(text) == ParseFrom(text, 1, "start", <<>>, <<>>, <<>>, FALSE)

\* for such a reader every file of the model comes back as it was written
RoundTripByGrammar ==
  Returned("roundTrip") =>
    /\ ReadAllByGrammar(call.csvText).ok
    /\ ReadAllByGrammar(call.csvText).records = call.csvRecords

\* C35: a dry run validates without executing: with --dry-run the export
\* command executes no entity query (it never connects to the database),
\* creates no output artifact and changes no entity's watermark, neither in
\* memory nor in the local state file
C35_DryRunChangesNothing ==
  DryRun =>
    /\ queries = <<>>
    /\ localFiles = EmptyDir /\ s3Objects = EmptyDir
    /\ updCalls = <<>>
    /\ stateFile.kind = call.fileBefore.kind
    /\ \A n \in Names :
         LastRunTimeIn(stateFile.ents, n) = LastRunTimeIn(call.fileBefore.ents, n)

\* UpdateEntityTimestamp has returned an error to its caller
ReturnedError == updCalls # <<>> /\ pc = "returned" /\ runErr # ""

\* C36: state unchanged on error: when UpdateEntityTimestamp returns an error
\* (unknown name, temp write, rename or remote push failed) the store is as
\* before the call: every entity's lastRunTime in memory and the content of
\* the local state file are unchanged, so memory and file do not disagree
C36_UnchangedOnError ==
  ReturnedError =>
    /\ entities = runStart.mem
    /\ stateFile = runStart.file
    /\ \A n \in Names :
         stateFile.kind = "json" =>
           LastRunTimeIn(entities, n) = LastRunTimeIn(stateFile.ents, n)

\* the paths of the artifacts the previous run reported, and were there when
\* it ended
EarlierArtifacts ==
  {prevRun.results[i].FilePath :
     i \in {j \in DOMAIN prevRun.results :
              /\ prevRun.results[j].Success /\ prevRun.results[j].RowCount > 0
              /\ prevRun.results[j].FilePath \in DOMAIN prevRun.files}}

\* this run has written a complete artifact to the path
ReplacedBy(path) ==
  \E i \in DOMAIN result.Results :
    /\ result.Results[i].Success /\ result.Results[i].RowCount > 0
    /\ result.Results[i].FilePath = path

\* C37: an artifact left by an earlier run is not destroyed by a later run
\* that does not replace it with a complete artifact: when a later run
\* processes the same entity with the same window start and fails or gets
\* no rows, the earlier file is still at its path with its content
C37_EarlierArtifactKept ==
  pc = "returned" =>
    \A path \in EarlierArtifacts :
      \/ ReplacedBy(path)
      \/ path \in DOMAIN localFiles /\ localFiles[path] = prevRun.files[path]

\* a step that changes the file at the state path does it by renaming a
\* complete temp file over it, and leaves the path with a complete content
ChangedByRename ==
  stateFile' # stateFile =>
    /\ tmpFile.kind = "json" /\ stateFile' = tmpFile
    /\ stateFile'.kind = "json"

\* C38: every modification of the local state file, in Load as well as in
\* UpdateEntityTimestamp, is the rename of a sibling temp file over the path,
\* so an interruption at any point of either operation leaves the state file
\* with a complete old or a complete new content
C38_OnlyTempAndRename == [][ChangedByRename]_vars

SuccessfulResults == {i \in DOMAIN result.Results : result.Results[i].Success}

C40_SkippedCounted ==
  pc = "returned" =>
    /\ result.TotalEntities = Len(entities)
    /\ result.TotalEntities = result.ProcessedCount + result.SkippedCount

====
